---- MODULE Spec2Model ----
(***************************************************************************)
(* Admission, lifecycle and reaping of k6 test runs in flagger-k6-webhook. *)
(*                                                                         *)
(* One request handler (singleRequestHandler.Handle) per inbound request,  *)
(* the launch handler's permit pool (availableTestRuns), the intake queue  *)
(* of the process reaper (processToWaitFor), the reaper's dispatcher       *)
(* (waitForProcesses) and its per-handle workers (waitForProcess), the     *)
(* per-run cancellation scope with its watcher goroutine (propagateCancel) *)
(* and the k6 process itself.                                              *)
(***************************************************************************)
EXTENDS Integers, Sequences, FiniteSets, TLC

\* ------------------------------------------------------------------ bounds
MaxConcurrentTests == 1
NumRequests == 2
MaxTime == 1

Reqs == 1..NumRequests
Keys == {"ns-name-phase"}
Delays == {0, 1, 2}
NoTime == -1
\* fallback of getWaitTime when no sample exists
DefaultWaitTime == 60
\* whole seconds observed for a run (dur / time.Second)
ExecSeconds == 30

VARIABLES
    h,                  \* singleRequestHandler of each request
    cmd,                \* the k6.TestRun started for each request
    released,           \* who returned the request's permit to the pool
    availableTestRuns,  \* launchHandler.availableTestRuns (permit pool)
    processToWaitFor,   \* launchHandler.processToWaitFor (intake queue)
    ctxDone,            \* launchHandler.ctx is cancelled (global shutdown)
    dispatcher,         \* position of waitForProcesses
    reaper,             \* position of waitForProcess for each handle
    waitForProcessesDone,
    metricTestDuration, \* the durations (whole seconds) observed so far
    lastFailureTime,    \* launchHandler.lastFailureTime
    now,                \* wall clock
    poll,               \* one call of waitForOutputPath, looked at step by step
    summary,            \* the launch_test_duration summary, series by series
    env,                \* one call of buildEnvVars, looked at step by step
    payload,            \* one call of newLaunchPayload: the request and what it yields
    cloud,              \* one request's captured output and notification context
    memo,               \* concurrent requests at the failure memo, with permits for all
    table,              \* the last-failure table, lock and keys, looked at step by step
    listen              \* one call of Listen, from NewLaunchHandler to its return

vars == <<h, cmd, released, availableTestRuns, processToWaitFor, ctxDone,
          dispatcher, reaper, waitForProcessesDone, metricTestDuration,
          lastFailureTime, now, poll, summary, env, payload, cloud, memo, table, listen>>

\* the state that the steps of the handlers and of the reaper leave alone: it
\* belongs to the functions that are looked at on their own
aside == <<poll, summary, env, payload, cloud, memo, table, listen>>

\* body: the message written; output: the captured output is in the body
NoResp == [code |-> 0, body |-> "", output |-> FALSE, retryAfter |-> NoTime]

\* newSingleRequestHandler
newSingleRequestHandler ==
    [pc |-> "idle", wfr |-> TRUE, key |-> "none", delay |-> 0, err |-> "none",
     testRunRequested |-> FALSE, asyncCleanup |-> FALSE,
     processCtx |-> "none", requestCtx |-> "live", watcher |-> "none",
     buf |-> FALSE,
     resp |-> NoResp, slack |-> <<>>]

\* exit codes of a process, the labels of the summary's series
ExitCodes == {0, 1}

\* prometheus.NewSummaryVec: no series yet; retryAfter is the header of the
\* last 429 answer computed from it
NoSummary == [series |-> [e \in ExitCodes |-> <<>>], retryAfter |-> NoTime]

\* no requests are looked at at the failure memo
NoMemo == [permits |-> 0,
           req |-> [r \in Reqs |-> [pc |-> "unused", key |-> "none",
                                    delay |-> 0]]]

\* no request's output and notification context are looked at
NoCloud == [state |-> "unused"]

\* no call of newLaunchPayload is looked at
NoPayload == [state |-> "unused"]

\* no call of buildEnvVars is looked at step by step
NoEnv == [envVars |-> <<>>, secrets |-> <<>>, kubeClient |-> FALSE,
          todo |-> {}, out |-> <<>>, result |-> "unused", calls |-> 0,
          first |-> [envVars |-> <<>>, secrets |-> <<>>, out |-> <<>>,
                     result |-> "none"]]

\* no call of Listen is looked at: the launch handler was constructed
NoListen == [pc |-> "unused"]

\* no access to the last-failure table is looked at step by step
NoTable == [state |-> "unused"]

\* no call of waitForOutputPath is looked at step by step
NoPoll == [pc |-> "unused", i |-> 0, checks |-> 0, sleeps |-> 0, slept |-> 0,
           markerAfter |-> 0, result |-> "none"]

NoTestRun ==
    [state |-> "none", waitErr |-> FALSE, cancelFunc |-> FALSE,
     waits |-> <<>>, tracked |-> 0, cleaned |-> FALSE]

Init ==
    /\ h = [r \in Reqs |-> newSingleRequestHandler]
    /\ cmd = [r \in Reqs |-> NoTestRun]
    /\ released = [r \in Reqs |-> <<>>]
    /\ availableTestRuns = MaxConcurrentTests
    /\ processToWaitFor = <<>>
    /\ ctxDone = FALSE
    /\ dispatcher = "loop"
    /\ reaper = [r \in Reqs |-> "none"]
    /\ waitForProcessesDone = 0
    /\ metricTestDuration = {}
    /\ lastFailureTime = [k \in Keys |-> NoTime]
    /\ now = 0
    /\ poll = NoPoll
    /\ summary = NoSummary
    /\ listen = NoListen
    /\ table = NoTable
    /\ memo = NoMemo
    /\ cloud = NoCloud
    /\ payload = NoPayload
    /\ env = NoEnv

\* ------------------------------------------------------- launch handler

\* launchHandler.requestTestRun: non-blocking receive from the permit pool
CanRequestTestRun == availableTestRuns > 0

\* launchHandler.releaseTestRun: blocking send into the permit pool
\* (buffered channel of capacity maxConcurrentTests)
CanReleaseTestRun == availableTestRuns < MaxConcurrentTests

\* launchHandler.registerProcessCleanup: blocking send into the intake queue
\* (buffered channel of capacity maxConcurrentTests)
CanRegister == Len(processToWaitFor) < MaxConcurrentTests

getWaitTime == IF metricTestDuration = {} THEN DefaultWaitTime ELSE ExecSeconds

\* launchHandler.setLastFailureTime
setLastFailureTime(k) == [lastFailureTime EXCEPT ![k] = now]

\* launchHandler.trackExecutionDuration
trackExecutionDuration(r) == metricTestDuration \cup {ExecSeconds}

lhRest == <<ctxDone, dispatcher, reaper, waitForProcessesDone>>

\* ------------------------------------------------------ request handler

\* requests are interchangeable: they arrive in the order of their index
MayArrive(r) == h[r].pc = "idle" /\ \A q \in Reqs : q < r => h[q].pc # "idle"

\* Handle returns: deferred cancelCtx() when waiting for results, the server
\* writes 200 if nothing was written and cancels the request's context
Returned(hr) ==
    [hr EXCEPT !.pc = "done",
               !.err = "none",
               !.buf = FALSE,
               !.slack = <<>>,
               !.requestCtx = "cancelled",
               !.resp = IF hr.resp.code = 0
                        THEN [NoResp EXCEPT !.code = 200] ELSE hr.resp,
               !.processCtx = IF hr.wfr /\ hr.processCtx # "none"
                              THEN "cancelled" ELSE hr.processCtx]

\* Handle is left by a panic (an index out of range in buildEnvVars): the
\* deferred cancelCtx() runs when waiting for results, nothing is written,
\* the permit stays with the handler, the server drops the connection and
\* with it the request's context
Panicked(hr) ==
    [hr EXCEPT !.pc = "panicked",
               !.requestCtx = "cancelled",
               !.processCtx = IF hr.wfr THEN "cancelled" ELSE @]

\* a notification whose error fails the request
Notified_Aborting(hr, msgs, ok) ==
    IF ok THEN [hr EXCEPT !.slack = @ \o msgs]
    ELSE [hr EXCEPT !.pc = "fail", !.err = "slack error"]

\* h.logIfError(h.sendSlackMessage(..)), h.logIfError(h.addFileToSlackThread(..)),
\* h.logIfError(h.updateSlackMessage(..)): the calls are made in this order, ok
\* says whether the notification service accepted them; an error is logged
Notified(hr, msgs, ok) == [hr EXCEPT !.slack = @ \o msgs]

\* Handle: admission succeeded (singleRequestHandler.requestTestRun), then
\* newLaunchPayload; on a validation error the 400 is written, the permit is
\* returned by the next step
Handle_Admit(r) ==
    /\ MayArrive(r)
    /\ CanRequestTestRun
    /\ availableTestRuns' = availableTestRuns - 1
    /\ \/ h' = [h EXCEPT ![r].pc = "release_invalid",
                         ![r].testRunRequested = TRUE,
                         ![r].resp = [NoResp EXCEPT !.code = 400,
                                        !.body = "error while validating request"]]
       \/ \E w \in BOOLEAN, k \in Keys, d \in Delays :
            h' = [h EXCEPT ![r].pc = "memo", ![r].testRunRequested = TRUE,
                           ![r].wfr = w, ![r].key = k, ![r].delay = d]
    /\ UNCHANGED <<cmd, released, processToWaitFor, lhRest,
                   metricTestDuration, lastFailureTime, now>>
    /\ UNCHANGED aside

\* a rejection that hands back a permit it never took
Handle_Reject_Releasing(r) ==
    /\ MayArrive(r)
    /\ ~CanRequestTestRun
    /\ availableTestRuns' = availableTestRuns + 1
    /\ h' = [h EXCEPT ![r].pc = "done",
                      ![r].requestCtx = "cancelled",
                      ![r].resp = [code |-> 429,
                                   body |-> "Maximum concurrent test runs reached",
                                   output |-> FALSE,
                                   retryAfter |-> getWaitTime]]
    /\ UNCHANGED <<cmd, released, processToWaitFor, lhRest,
                   metricTestDuration, lastFailureTime, now>>
    /\ UNCHANGED aside

\* Handle: admission failed, 429 with Retry-After
Handle_Reject(r) ==
    /\ MayArrive(r)
    /\ ~CanRequestTestRun
    /\ h' = [h EXCEPT ![r].pc = "done",
                      ![r].requestCtx = "cancelled",
                      ![r].resp = [code |-> 429,
                                   body |-> "Maximum concurrent test runs reached",
                                   output |-> FALSE,
                                   retryAfter |-> getWaitTime]]
    /\ UNCHANGED <<cmd, released, availableTestRuns, processToWaitFor, lhRest,
                   metricTestDuration, lastFailureTime, now>>
    /\ UNCHANGED aside

\* a memo check that rejects every run that follows a failure, whatever the
\* time passed since
TooSoon_AnyFailure(k, delay) == lastFailureTime[k] # NoTime

\* a validation error that returns without handing the permit back
Handle_ReleaseInvalid_Leaking(r) ==
    /\ h[r].pc = "release_invalid"
    /\ h' = [h EXCEPT ![r] = Returned(h[r])]
    /\ UNCHANGED <<cmd, released, availableTestRuns, processToWaitFor, lhRest,
                   metricTestDuration, lastFailureTime, now>>
    /\ UNCHANGED aside

\* Handle: h.lh.releaseTestRun() after a validation error, then return
Handle_ReleaseInvalid(r) ==
    /\ h[r].pc = "release_invalid"
    /\ CanReleaseTestRun
    /\ availableTestRuns' = availableTestRuns + 1
    /\ released' = [released EXCEPT ![r] = Append(@, "handler")]
    /\ h' = [h EXCEPT ![r] = Returned(h[r])]
    /\ UNCHANGED <<cmd, processToWaitFor, lhRest,
                   metricTestDuration, lastFailureTime, now>>
    /\ UNCHANGED aside

\* checkAgainstLastFailureTime
TooSoon(k, delay) ==
    lastFailureTime[k] # NoTime /\ now - lastFailureTime[k] < delay

\* Handle: checkAgainstLastFailureTime rejects the request (the delay of the
\* payload is read here for the last time)
Handle_TooSoon(r) ==
    /\ h[r].pc = "memo"
    /\ TooSoon(h[r].key, h[r].delay)
    /\ h' = [h EXCEPT ![r].pc = "fail", ![r].delay = 0,
                      ![r].err = "not enough time since last failure"]
    /\ UNCHANGED <<cmd, released, availableTestRuns, processToWaitFor, lhRest,
                   metricTestDuration, lastFailureTime, now>>
    /\ UNCHANGED aside

\* Handle: checkAgainstLastFailureTime passes, the run's scope is created and
\* its watcher started; startK6Test: buildEnvVars (which returns the
\* variables or an error, or panics on a secret reference without a key),
\* then client.Start
Handle_Start(r) ==
    /\ h[r].pc = "memo"
    /\ ~TooSoon(h[r].key, h[r].delay)
    /\ \/ /\ \E e \in {"resolution error", "error while launching test"} :
               h' = [h EXCEPT ![r].pc = "fail", ![r].err = e, ![r].delay = 0,
                              ![r].processCtx = "live",
                              ![r].watcher = "watching"]
          /\ UNCHANGED cmd
       \/ /\ h' = [h EXCEPT ![r] = Panicked([h[r] EXCEPT
                                               !.delay = 0,
                                               !.processCtx = "live",
                                               !.watcher = "watching"])]
          /\ UNCHANGED cmd
       \/ /\ h' = [h EXCEPT ![r].pc = "poll", ![r].delay = 0,
                            ![r].processCtx = "live",
                            ![r].watcher = "watching"]
          /\ cmd' = [cmd EXCEPT ![r].state = "running"]
    /\ UNCHANGED <<released, availableTestRuns, processToWaitFor, lhRest,
                   metricTestDuration, lastFailureTime, now>>
    /\ UNCHANGED aside

\* waitForOutputPath timed out (the started process has written something
\* other than the marker into the buffer): failure notification with the captured
\* output, then singleRequestHandler.registerProcessCleanup marks the request
\* for asynchronous cleanup (the send into the queue is the next step)
Handle_ReadinessTimeout(r) ==
    /\ h[r].pc = "poll"
    /\ \E ok \in BOOLEAN :
         h' = [h EXCEPT ![r] =
                 Notified([h[r] EXCEPT
                              !.pc = "register_timeout",
                              !.err = "error while waiting for test to start: timeout",
                              !.buf = TRUE,
                              !.asyncCleanup = TRUE],
                          <<"didn't start successfully", "file">>, ok)]
    /\ UNCHANGED <<cmd, released, availableTestRuns, processToWaitFor, lhRest,
                   metricTestDuration, lastFailureTime, now>>
    /\ UNCHANGED aside

\* a handler that announces the start although no cloud URL was found
Handle_NoCloudURL_Announcing(r) ==
    /\ h[r].pc = "poll"
    /\ h' = [h EXCEPT ![r].pc = "fail", ![r].buf = TRUE,
                      ![r].slack = Append(@, "has started"),
                      ![r].err = "couldn't find the cloud URL in the output"]
    /\ UNCHANGED <<cmd, released, availableTestRuns, processToWaitFor, lhRest,
                   metricTestDuration, lastFailureTime, now>>
    /\ UNCHANGED aside

\* waitForOutputPath succeeded, attachCloudURL failed
Handle_NoCloudURL(r) ==
    /\ h[r].pc = "poll"
    /\ h' = [h EXCEPT ![r].pc = "fail", ![r].buf = TRUE,
                      ![r].err = "couldn't find the cloud URL in the output"]
    /\ UNCHANGED <<cmd, released, availableTestRuns, processToWaitFor, lhRest,
                   metricTestDuration, lastFailureTime, now>>
    /\ UNCHANGED aside

\* processResult that waits for the process whatever wait_for_results says
Handle_Started_AlwaysWaiting(r) ==
    /\ h[r].pc = "poll"
    /\ h' = [h EXCEPT ![r].pc = "wait", ![r].buf = TRUE,
                      ![r].slack = Append(@, "has started")]
    /\ UNCHANGED <<cmd, released, availableTestRuns, processToWaitFor, lhRest,
                   metricTestDuration, lastFailureTime, now>>
    /\ UNCHANGED aside

\* waitForOutputPath and attachCloudURL succeeded: start notification, then
\* processResult up to its blocking call (hand-off or Wait)
Handle_Started(r) ==
    /\ h[r].pc = "poll"
    /\ \E ok \in BOOLEAN :
         IF h[r].wfr
         THEN /\ h' = [h EXCEPT ![r] =
                        Notified([h[r] EXCEPT !.pc = "wait", !.buf = TRUE],
                                 <<"has started">>, ok)]
              /\ UNCHANGED cmd
         ELSE /\ h' = [h EXCEPT ![r] =
                        Notified([h[r] EXCEPT !.pc = "register_async",
                                              !.buf = TRUE,
                                              !.asyncCleanup = TRUE],
                                 <<"has started">>, ok)]
              /\ cmd' = [cmd EXCEPT ![r].cancelFunc = TRUE]
    /\ UNCHANGED <<released, availableTestRuns, processToWaitFor, lhRest,
                   metricTestDuration, lastFailureTime, now>>
    /\ UNCHANGED aside

\* a hand-off after which the handler calls Wait on the handle all the same
Handle_Register_Waiting(r) ==
    /\ h[r].pc \in {"register_timeout", "register_url", "register_async"}
    /\ CanRegister
    /\ processToWaitFor' = Append(processToWaitFor, r)
    /\ cmd' = [cmd EXCEPT ![r].waits = Append(@, "handler")]
    /\ h' = [h EXCEPT ![r] = IF h[r].pc = "register_timeout"
                             THEN [h[r] EXCEPT !.pc = "fail"]
                             ELSE Returned(h[r])]
    /\ UNCHANGED <<released, availableTestRuns, lhRest,
                   metricTestDuration, lastFailureTime, now>>
    /\ UNCHANGED aside

\* launchHandler.registerProcessCleanup: the send into processToWaitFor
Handle_Register(r) ==
    /\ h[r].pc \in {"register_timeout", "register_url", "register_async"}
    /\ CanRegister
    /\ processToWaitFor' = Append(processToWaitFor, r)
    /\ h' = [h EXCEPT ![r] = IF h[r].pc = "register_timeout"
                             THEN [h[r] EXCEPT !.pc = "fail"]
                             ELSE Returned(h[r])]
    /\ UNCHANGED <<cmd, released, availableTestRuns, lhRest,
                   metricTestDuration, lastFailureTime, now>>
    /\ UNCHANGED aside

\* singleRequestHandler.releaseTestRun returns the permit only if the handler
\* still holds one and the request is not marked for asynchronous cleanup
HandlerReleases(hr) == hr.testRunRequested /\ ~hr.asyncCleanup

\* a processResult that records a failure time for every finished run
Handle_Wait_AlwaysRecording(r) ==
    /\ h[r].pc = "wait"
    /\ cmd[r].state = "exited"
    /\ cmd' = [cmd EXCEPT ![r].waits = Append(@, "handler"),
                          ![r].tracked = @ + 1]
    /\ metricTestDuration' = trackExecutionDuration(r)
    /\ lastFailureTime' = setLastFailureTime(h[r].key)
    /\ IF ~cmd[r].waitErr
       THEN h' = [h EXCEPT ![r].pc = "release_sync",
                           ![r].slack = @ \o <<"file", "has succeeded">>,
                           ![r].resp = [NoResp EXCEPT !.code = 200,
                                                      !.output = TRUE]]
       ELSE h' = [h EXCEPT ![r].pc = "release_sync",
                           ![r].slack = @ \o <<"file", "has failed">>,
                           ![r].err = "failed to run"]
    /\ UNCHANGED <<released, availableTestRuns, processToWaitFor, lhRest, now>>
    /\ UNCHANGED aside

\* a processResult that answers 200 with the output whatever Wait returned
Handle_Wait_IgnoringExit(r) ==
    /\ h[r].pc = "wait"
    /\ cmd[r].state = "exited"
    /\ cmd' = [cmd EXCEPT ![r].waits = Append(@, "handler"),
                          ![r].tracked = @ + 1]
    /\ metricTestDuration' = trackExecutionDuration(r)
    /\ h' = [h EXCEPT ![r].pc = "release_sync",
                      ![r].slack = @ \o <<"file", "has succeeded">>,
                      ![r].resp = [NoResp EXCEPT !.code = 200, !.output = TRUE]]
    /\ UNCHANGED <<released, availableTestRuns, processToWaitFor, lhRest,
                   lastFailureTime, now>>
    /\ UNCHANGED aside

\* processResult with wait_for_results: cmd.Wait() returned, duration
\* tracked, output uploaded, message updated, success body written
Handle_Wait(r) ==
    /\ h[r].pc = "wait"
    /\ cmd[r].state = "exited"
    /\ cmd' = [cmd EXCEPT ![r].waits = Append(@, "handler"),
                          ![r].tracked = @ + 1]
    /\ metricTestDuration' = trackExecutionDuration(r)
    /\ \E ok \in BOOLEAN :
         IF ~cmd[r].waitErr
         THEN h' = [h EXCEPT ![r] =
                      Notified([h[r] EXCEPT !.pc = "release_sync",
                                            !.resp = [NoResp EXCEPT !.code = 200,
                                                                    !.output = TRUE]],
                               <<"file", "has succeeded">>, ok)]
         ELSE h' = [h EXCEPT ![r] =
                      Notified([h[r] EXCEPT !.pc = "release_sync",
                                            !.err = "failed to run"],
                               <<"file", "has failed">>, ok)]
    /\ UNCHANGED <<released, availableTestRuns, processToWaitFor, lhRest,
                   lastFailureTime, now>>
    /\ UNCHANGED aside

\* processResult's deferred releaseTestRun, then Handle returns or fails
Handle_ReleaseSync(r) ==
    /\ h[r].pc = "release_sync"
    /\ IF HandlerReleases(h[r])
       THEN /\ CanReleaseTestRun
            /\ availableTestRuns' = availableTestRuns + 1
            /\ released' = [released EXCEPT ![r] = Append(@, "handler")]
       ELSE UNCHANGED <<availableTestRuns, released>>
    /\ LET hr == [h[r] EXCEPT !.testRunRequested =
                        IF HandlerReleases(h[r]) THEN FALSE ELSE @]
       IN h' = [h EXCEPT ![r] = IF hr.err # "none"
                                THEN [hr EXCEPT !.pc = "fail"]
                                ELSE Returned(hr)]
    /\ UNCHANGED <<cmd, processToWaitFor, lhRest,
                   metricTestDuration, lastFailureTime, now>>
    /\ UNCHANGED aside

\* a failed request that returns without handing its process to the reaper
AfterFailRequest_NoRegister(hr) ==
    Returned([hr EXCEPT !.processCtx = IF @ = "none" THEN @ ELSE "cancelled"])

\* a failRequest that leaves the scope of the run as it is
AfterFailRequest_NoCancel(hr) ==
    IF hr.err = "couldn't find the cloud URL in the output"
    THEN [hr EXCEPT !.pc = "register_url", !.asyncCleanup = TRUE]
    ELSE Returned(hr)

\* failRequest after its release: the scope is cancelled; then Handle
\* returns, or registers the process when the failure was the missing cloud URL
AfterFailRequest(hr) ==
    LET c == [hr EXCEPT !.processCtx = IF @ = "none" THEN @ ELSE "cancelled"]
    IN IF c.err = "couldn't find the cloud URL in the output"
       THEN [c EXCEPT !.pc = "register_url", !.asyncCleanup = TRUE]
       ELSE Returned(c)

\* a failRequest that never returns the permit
Handle_FailRequest_NoRelease(r) ==
    /\ h[r].pc = "fail"
    /\ lastFailureTime' = setLastFailureTime(h[r].key)
    /\ h' = [h EXCEPT ![r] =
               AfterFailRequest([h[r] EXCEPT !.resp = [NoResp EXCEPT !.code = 400,
                                                          !.body = h[r].err,
                                                          !.output = h[r].buf]])]
    /\ UNCHANGED <<cmd, released, availableTestRuns, processToWaitFor, lhRest,
                   metricTestDuration, now>>
    /\ UNCHANGED aside

\* a failRequest that leaves the memo alone when it rejects a suppressed retry
Handle_FailRequest_KeepingWindow(r) ==
    /\ h[r].pc = "fail"
    /\ lastFailureTime' = IF h[r].err = "not enough time since last failure"
                          THEN lastFailureTime
                          ELSE setLastFailureTime(h[r].key)
    /\ LET hr == [h[r] EXCEPT !.resp = [NoResp EXCEPT !.code = 400,
                                                      !.body = h[r].err,
                                                      !.output = h[r].buf]]
       IN h' = [h EXCEPT ![r] = IF HandlerReleases(hr)
                                THEN [hr EXCEPT !.pc = "fail_release"]
                                ELSE AfterFailRequest(hr)]
    /\ UNCHANGED <<cmd, released, availableTestRuns, processToWaitFor, lhRest,
                   metricTestDuration, now>>
    /\ UNCHANGED aside

\* a failRequest that answers with the message alone
Handle_FailRequest_MessageOnly(r) ==
    /\ h[r].pc = "fail"
    /\ lastFailureTime' = setLastFailureTime(h[r].key)
    /\ LET hr == [h[r] EXCEPT !.resp = [NoResp EXCEPT !.code = 400,
                                                      !.body = h[r].err]]
       IN h' = [h EXCEPT ![r] = IF HandlerReleases(hr)
                                THEN [hr EXCEPT !.pc = "fail_release"]
                                ELSE AfterFailRequest(hr)]
    /\ UNCHANGED <<cmd, released, availableTestRuns, processToWaitFor, lhRest,
                   metricTestDuration, now>>
    /\ UNCHANGED aside

\* failRequest: setLastFailureTime and the 400 response; when the handler has
\* no permit to return, failRequest runs to its end, else the release is the
\* next step
Handle_FailRequest(r) ==
    /\ h[r].pc = "fail"
    /\ lastFailureTime' = setLastFailureTime(h[r].key)
    /\ LET hr == [h[r] EXCEPT !.resp = [NoResp EXCEPT !.code = 400,
                                                      !.body = h[r].err,
                                                      !.output = h[r].buf]]
       IN h' = [h EXCEPT ![r] = IF HandlerReleases(hr)
                                THEN [hr EXCEPT !.pc = "fail_release"]
                                ELSE AfterFailRequest(hr)]
    /\ UNCHANGED <<cmd, released, availableTestRuns, processToWaitFor, lhRest,
                   metricTestDuration, now>>
    /\ UNCHANGED aside

\* failRequest, continued: h.releaseTestRun()
Handle_FailRelease(r) ==
    /\ h[r].pc = "fail_release"
    /\ CanReleaseTestRun
    /\ availableTestRuns' = availableTestRuns + 1
    /\ released' = [released EXCEPT ![r] = Append(@, "handler")]
    /\ h' = [h EXCEPT ![r] =
               AfterFailRequest([h[r] EXCEPT !.testRunRequested = FALSE])]
    /\ UNCHANGED <<cmd, processToWaitFor, lhRest,
                   metricTestDuration, lastFailureTime, now>>
    /\ UNCHANGED aside

\* ------------------------------------------------- contexts and process

\* the caller closes the connection while the request is being handled; only
\* the watcher of a run that is waited for reads the request's context, for
\* the other runs its closing is modelled where Handle returns
Client_Disconnect(r) ==
    /\ h[r].pc \notin {"idle", "done"}
    /\ h[r].watcher = "watching"
    /\ h[r].wfr
    /\ h[r].requestCtx = "live"
    /\ h' = [h EXCEPT ![r].requestCtx = "cancelled"]
    /\ UNCHANGED <<cmd, released, availableTestRuns, processToWaitFor, lhRest,
                   metricTestDuration, lastFailureTime, now>>
    /\ UNCHANGED aside

\* a watcher that follows the request's context whatever wait_for_results says
WatcherWoken_AlwaysRequest(hr) == hr.requestCtx = "cancelled" \/ ctxDone

\* a watcher that follows the global context only
WatcherWoken_ShutdownOnly(hr) == ctxDone

\* propagateCancel: which signals wake the watcher of a run
WatcherWoken(hr) ==
    IF hr.wfr THEN hr.requestCtx = "cancelled" \/ ctxDone ELSE ctxDone

propagateCancel(r) ==
    /\ h[r].watcher = "watching"
    /\ WatcherWoken(h[r])
    /\ h' = [h EXCEPT ![r].watcher = "done", ![r].processCtx = "cancelled"]
    /\ UNCHANGED <<cmd, released, availableTestRuns, processToWaitFor, lhRest,
                   metricTestDuration, lastFailureTime, now>>
    /\ UNCHANGED aside

\* the k6 process exits on its own; waitErr: cmd.Wait() will return an error
\* (non-zero exit status)
Process_Exit(r) ==
    /\ cmd[r].state = "running"
    /\ \E e \in BOOLEAN :
         cmd' = [cmd EXCEPT ![r].state = "exited", ![r].waitErr = e]
    /\ UNCHANGED <<h, released, availableTestRuns, processToWaitFor, lhRest,
                   metricTestDuration, lastFailureTime, now>>
    /\ UNCHANGED aside

\* exec.CommandContext kills the process once its context is cancelled
Process_Kill(r) ==
    /\ cmd[r].state = "running"
    /\ h[r].processCtx = "cancelled"
    /\ cmd' = [cmd EXCEPT ![r].state = "exited", ![r].waitErr = TRUE]
    /\ UNCHANGED <<h, released, availableTestRuns, processToWaitFor, lhRest,
                   metricTestDuration, lastFailureTime, now>>
    /\ UNCHANGED aside

\* ---------------------------------------------------------------- reaper

\* the global context handed to NewLaunchHandler is cancelled
Shutdown ==
    /\ ~ctxDone
    /\ ctxDone' = TRUE
    /\ UNCHANGED <<h, cmd, released, availableTestRuns, processToWaitFor,
                   dispatcher, reaper, waitForProcessesDone,
                   metricTestDuration, lastFailureTime, now>>
    /\ UNCHANGED aside

\* waitForProcesses: a handle is received and a worker started for it
waitForProcesses_Receive ==
    /\ dispatcher = "loop"
    /\ processToWaitFor # <<>>
    /\ reaper' = [reaper EXCEPT ![Head(processToWaitFor)] = "wait"]
    /\ processToWaitFor' = Tail(processToWaitFor)
    /\ UNCHANGED <<h, cmd, released, availableTestRuns, ctxDone, dispatcher,
                   waitForProcessesDone, metricTestDuration, lastFailureTime, now>>
    /\ UNCHANGED aside

\* waitForProcesses: ctx.Done() selected, the loop is left
waitForProcesses_Break ==
    /\ dispatcher = "loop"
    /\ ctxDone
    /\ dispatcher' = "wg.Wait"
    /\ UNCHANGED <<h, cmd, released, availableTestRuns, processToWaitFor,
                   ctxDone, reaper, waitForProcessesDone,
                   metricTestDuration, lastFailureTime, now>>
    /\ UNCHANGED aside

WorkerActive(r) == reaper[r] \notin {"none", "done"}

\* waitForProcesses: wg.Wait() returned, completion is signalled
waitForProcesses_Return ==
    /\ dispatcher = "wg.Wait"
    /\ \A r \in Reqs : ~WorkerActive(r)
    /\ dispatcher' = "done"
    /\ waitForProcessesDone' = 1
    /\ UNCHANGED <<h, cmd, released, availableTestRuns, processToWaitFor,
                   ctxDone, reaper, metricTestDuration, lastFailureTime, now>>
    /\ UNCHANGED aside

\* a worker that returns the permit right after Wait
NextStage_ReleaseFirst(s) ==
    CASE s = "wait" -> "release"
      [] s = "release" -> "track"
      [] s = "track" -> "cleanup"
      [] s = "cleanup" -> "done"

\* waitForProcess: the order of a worker's steps
NextStage(s) ==
    CASE s = "wait" -> "track"
      [] s = "track" -> "cleanup"
      [] s = "cleanup" -> "release"
      [] s = "release" -> "done"

\* a worker that kills a still running process once the global context is
\* cancelled, and then collects it
waitForProcess_Wait_Killing(r) ==
    /\ reaper[r] = "wait"
    /\ cmd[r].state = "exited" \/ ctxDone
    /\ cmd' = [cmd EXCEPT ![r].state = "exited",
                          ![r].waitErr = IF cmd[r].state = "running" THEN TRUE ELSE @,
                          ![r].waits = Append(@, "reaper")]
    /\ reaper' = [reaper EXCEPT ![r] = "track"]
    /\ UNCHANGED <<h, released, availableTestRuns, processToWaitFor, ctxDone,
                   dispatcher, waitForProcessesDone, metricTestDuration,
                   lastFailureTime, now>>
    /\ UNCHANGED aside

\* waitForProcess: cmd.Wait() returned
waitForProcess_Wait(r) ==
    /\ reaper[r] = "wait"
    /\ cmd[r].state = "exited"
    /\ cmd' = [cmd EXCEPT ![r].waits = Append(@, "reaper")]
    /\ reaper' = [reaper EXCEPT ![r] = NextStage("wait")]
    /\ UNCHANGED <<h, released, availableTestRuns, processToWaitFor, ctxDone,
                   dispatcher, waitForProcessesDone, metricTestDuration,
                   lastFailureTime, now>>
    /\ UNCHANGED aside

\* waitForProcess: trackExecutionDuration
waitForProcess_Track(r) ==
    /\ reaper[r] = "track"
    /\ metricTestDuration' = trackExecutionDuration(r)
    /\ cmd' = [cmd EXCEPT ![r].tracked = @ + 1]
    /\ reaper' = [reaper EXCEPT ![r] = NextStage("track")]
    /\ UNCHANGED <<h, released, availableTestRuns, processToWaitFor, ctxDone,
                   dispatcher, waitForProcessesDone, lastFailureTime, now>>
    /\ UNCHANGED aside

\* waitForProcess: cmd.CleanupContext() calls the attached cancel function
waitForProcess_Cleanup(r) ==
    /\ reaper[r] = "cleanup"
    /\ h' = [h EXCEPT ![r].processCtx =
                 IF cmd[r].cancelFunc THEN "cancelled" ELSE @]
    /\ cmd' = [cmd EXCEPT ![r].cleaned = TRUE]
    /\ reaper' = [reaper EXCEPT ![r] = NextStage("cleanup")]
    /\ UNCHANGED <<released, availableTestRuns, processToWaitFor, ctxDone,
                   dispatcher, waitForProcessesDone, metricTestDuration,
                   lastFailureTime, now>>
    /\ UNCHANGED aside

\* waitForProcess: the permit is returned to the pool
waitForProcess_Release(r) ==
    /\ reaper[r] = "release"
    /\ CanReleaseTestRun
    /\ availableTestRuns' = availableTestRuns + 1
    /\ released' = [released EXCEPT ![r] = Append(@, "reaper")]
    /\ reaper' = [reaper EXCEPT ![r] = NextStage("release")]
    /\ UNCHANGED <<h, cmd, processToWaitFor, ctxDone, dispatcher,
                   waitForProcessesDone, metricTestDuration, lastFailureTime, now>>
    /\ UNCHANGED aside

\* a rejected request left nothing behind; the caller tries again later with
\* a new request
Client_Retry(r) ==
    /\ h[r].pc = "done"
    /\ h[r].resp.code = 429
    /\ h' = [h EXCEPT ![r] = newSingleRequestHandler]
    /\ UNCHANGED <<cmd, released, availableTestRuns, processToWaitFor, lhRest,
                   metricTestDuration, lastFailureTime, now>>
    /\ UNCHANGED aside

\* time passes; the clock starts with the first recorded failure, before
\* that nothing reads it
Tick ==
    /\ now < MaxTime
    /\ \E k \in Keys : lastFailureTime[k] # NoTime
    /\ now' = now + 1
    /\ UNCHANGED <<h, cmd, released, availableTestRuns, processToWaitFor,
                   lhRest, metricTestDuration, lastFailureTime>>
    /\ UNCHANGED aside

Next ==
    \/ \E r \in Reqs : Handle_Admit(r)
    \/ \E r \in Reqs : Handle_Reject(r)
    \/ \E r \in Reqs : Handle_ReleaseInvalid(r)
    \/ \E r \in Reqs : Handle_TooSoon(r)
    \/ \E r \in Reqs : Handle_Start(r)
    \/ \E r \in Reqs : Handle_ReadinessTimeout(r)
    \/ \E r \in Reqs : Handle_NoCloudURL(r)
    \/ \E r \in Reqs : Handle_Started(r)
    \/ \E r \in Reqs : Handle_Register(r)
    \/ \E r \in Reqs : Handle_Wait(r)
    \/ \E r \in Reqs : Handle_ReleaseSync(r)
    \/ \E r \in Reqs : Handle_FailRequest(r)
    \/ \E r \in Reqs : Handle_FailRelease(r)
    \/ \E r \in Reqs : Client_Disconnect(r)
    \/ \E r \in Reqs : propagateCancel(r)
    \/ \E r \in Reqs : Process_Exit(r)
    \/ \E r \in Reqs : Process_Kill(r)
    \/ \E r \in Reqs : waitForProcess_Wait(r)
    \/ \E r \in Reqs : waitForProcess_Track(r)
    \/ \E r \in Reqs : waitForProcess_Cleanup(r)
    \/ \E r \in Reqs : waitForProcess_Release(r)
    \/ \E r \in Reqs : Client_Retry(r)
    \/ waitForProcesses_Receive
    \/ waitForProcesses_Break
    \/ waitForProcesses_Return
    \/ Shutdown
    \/ Tick

Spec == Init /\ [][Next]_vars

TypeOK ==
    /\ availableTestRuns \in 0..MaxConcurrentTests
    /\ Len(processToWaitFor) <= MaxConcurrentTests
    /\ now \in 0..MaxTime

\* the scheduling of goroutines and of the operating system: a step of the
\* watcher, of the dispatcher, of a worker or of a waiting handler that stays
\* possible is eventually taken, and a process whose context is cancelled is
\* eventually killed
FairSpec ==
    /\ Spec
    /\ \A r \in Reqs : WF_vars(propagateCancel(r))
    /\ \A r \in Reqs : WF_vars(Process_Kill(r))
    /\ \A r \in Reqs : WF_vars(Handle_Wait(r))
    /\ WF_vars(waitForProcesses_Receive)

\* the scheduling of the reaper's goroutines: the dispatcher and every worker
\* take a step that stays possible, and every started process exits in the end
FairReaperSpec ==
    /\ Spec
    /\ WF_vars(waitForProcesses_Receive)
    /\ WF_vars(waitForProcesses_Break)
    /\ WF_vars(waitForProcesses_Return)
    /\ \A r \in Reqs : /\ WF_vars(Process_Exit(r))
                       /\ WF_vars(waitForProcess_Wait(r))
                       /\ WF_vars(waitForProcess_Track(r))
                       /\ WF_vars(waitForProcess_Cleanup(r))
                       /\ WF_vars(waitForProcess_Release(r))

\* ---------------------------------------------------------- readiness poll

\* waitForOutputPath: the number of passes of its loop
PollAttempts == 10

\* waitForOutputPath: the seconds slept after a check that found no marker
PollSleepSeconds == 2

\* the longest the process takes to write the "output:" marker, in sleeps of
\* the poll; with more than PollAttempts the marker comes after the poll ended
MaxMarkerDelay == 11

\* the request whose poll is looked at step by step
PollReq == CHOOSE r \in Reqs : \A q \in Reqs : r <= q

\* strings.Contains(h.buf.String(), "output:"): the process appends to the
\* buffer only, so the marker is there from the moment it was written
MarkerPresent == poll.sleeps >= poll.markerAfter

\* the state in which Handle calls waitForOutputPath: the request has its
\* permit, the memo let it pass, the process is started
PollInit ==
    /\ \E w \in BOOLEAN, k \in Keys :
         h = [r \in Reqs |->
                IF r = PollReq
                THEN [newSingleRequestHandler EXCEPT
                         !.pc = "poll", !.testRunRequested = TRUE,
                         !.wfr = w, !.key = k,
                         !.processCtx = "live", !.watcher = "watching"]
                ELSE newSingleRequestHandler]
    /\ cmd = [r \in Reqs |-> IF r = PollReq
                             THEN [NoTestRun EXCEPT !.state = "running"]
                             ELSE NoTestRun]
    /\ released = [r \in Reqs |-> <<>>]
    /\ availableTestRuns = MaxConcurrentTests - 1
    /\ processToWaitFor = <<>>
    /\ ctxDone = FALSE
    /\ dispatcher = "loop"
    /\ reaper = [r \in Reqs |-> "none"]
    /\ waitForProcessesDone = 0
    /\ metricTestDuration = {}
    /\ lastFailureTime = [k \in Keys |-> NoTime]
    /\ now = 0
    /\ \E m \in 0..MaxMarkerDelay :
         poll = [NoPoll EXCEPT !.pc = "check", !.markerAfter = m]
    /\ summary = NoSummary
    /\ listen = NoListen
    /\ table = NoTable
    /\ memo = NoMemo
    /\ cloud = NoCloud
    /\ payload = NoPayload
    /\ env = NoEnv

pollFrame == <<h, cmd, released, availableTestRuns, processToWaitFor, lhRest,
               metricTestDuration, lastFailureTime, now, summary, env, payload, cloud, memo, table, listen>>

\* the loop condition holds and the buffer is examined
waitForOutputPath_Check ==
    /\ poll.pc = "check"
    /\ poll.i < PollAttempts
    /\ poll' = IF MarkerPresent
               THEN [poll EXCEPT !.checks = @ + 1, !.pc = "done",
                                 !.result = "ok"]
               ELSE [poll EXCEPT !.checks = @ + 1, !.pc = "sleep"]
    /\ UNCHANGED pollFrame

\* h.lh.sleep(2 * time.Second), then i++
waitForOutputPath_Sleep ==
    /\ poll.pc = "sleep"
    /\ poll' = [poll EXCEPT !.sleeps = @ + 1, !.slept = @ + PollSleepSeconds,
                            !.i = @ + 1, !.pc = "check"]
    /\ UNCHANGED pollFrame

\* a poll that examines the buffer once more after its last sleep
waitForOutputPath_Timeout_CheckingAgain ==
    /\ poll.pc = "check"
    /\ poll.i >= PollAttempts
    /\ poll' = IF MarkerPresent
               THEN [poll EXCEPT !.checks = @ + 1, !.pc = "done",
                                 !.result = "ok"]
               ELSE [poll EXCEPT !.checks = @ + 1, !.pc = "done",
                                 !.result = "timeout"]
    /\ UNCHANGED pollFrame

\* the loop condition fails: return errors.New("timeout")
waitForOutputPath_Timeout ==
    /\ poll.pc = "check"
    /\ poll.i >= PollAttempts
    /\ poll' = [poll EXCEPT !.pc = "done", !.result = "timeout"]
    /\ UNCHANGED pollFrame

\* Handle after waitForOutputPath returned: the steps of the polled request
\* that follow the result of the poll
PollNext ==
    \/ waitForOutputPath_Check
    \/ waitForOutputPath_Sleep
    \/ waitForOutputPath_Timeout
    \/ poll.result = "timeout" /\ Handle_ReadinessTimeout(PollReq)
    \/ poll.result = "timeout" /\ Handle_Register(PollReq)
    \/ poll.result = "timeout" /\ Handle_FailRequest(PollReq)
    \/ poll.result = "ok" /\ Handle_Started(PollReq)
    \/ poll.result = "ok" /\ Handle_NoCloudURL(PollReq)

PollSpec == PollInit /\ [][PollNext]_vars

\* --------------------------------------------------- wait-time estimator

\* the most observations the summary is given
MaxObservations == 3

\* time.Second, in the milliseconds run durations are drawn in
SecondMillis == 1000

\* cmd.ExecutionDuration() in milliseconds; 0 for a run that was never waited
RunMillis == {0, 500, 1000, 3000}

\* the number of observations of all series
Observations ==
    LET RECURSIVE Sum(_)
        Sum(E) == IF E = {} THEN 0
                  ELSE LET e == CHOOSE x \in E : TRUE
                       IN Len(summary.series[e]) + Sum(E \ {e})
    IN Sum(ExitCodes)

\* the 0.5 quantile of a series: a sample with half of the samples on either
\* side of it
Medians(s) ==
    {s[i] : i \in {j \in DOMAIN s :
        /\ 2 * Cardinality({k \in DOMAIN s : s[k] <= s[j]}) >= Len(s)
        /\ 2 * Cardinality({k \in DOMAIN s : s[k] >= s[j]}) >= Len(s)}}

metricFrame == <<h, cmd, released, availableTestRuns, processToWaitFor, lhRest,
                 metricTestDuration, lastFailureTime, now, poll, env, payload, cloud, memo, table, listen>>

\* launchHandler.trackExecutionDuration, per series: a duration other than 0
\* is observed in whole seconds in the series of the run's exit code
trackExecutionDuration_Observe ==
    /\ Observations < MaxObservations
    /\ \E e \in ExitCodes, dur \in RunMillis :
         summary' = IF dur # 0
                    THEN [summary EXCEPT
                            !.series[e] = Append(@, dur \div SecondMillis)]
                    ELSE summary
    /\ UNCHANGED metricFrame

\* launchHandler.getWaitTime, per series: the 0.5 quantile of the first series
\* that the registry gathers for the family, the fallback when it gathers none;
\* the order of the gathered series is the registry's
getWaitTime_Gather ==
    /\ \/ /\ \A e \in ExitCodes : summary.series[e] = <<>>
          /\ summary' = [summary EXCEPT !.retryAfter = DefaultWaitTime]
       \/ \E e \in ExitCodes :
            /\ summary.series[e] # <<>>
            /\ \E m \in Medians(summary.series[e]) :
                 summary' = [summary EXCEPT !.retryAfter = m]
    /\ UNCHANGED metricFrame

MetricNext ==
    \/ trackExecutionDuration_Observe
    \/ getWaitTime_Gather

MetricSpec == Init /\ [][MetricNext]_vars

\* ------------------------------------------------- environment of the run

\* a string in which "/" may occur is the sequence of its segments
PayloadNamespace == <<"test-space">>
VarNames == {"FOO", "TEST_VAR"}
DirectValues == {"bar"}

\* the references of kubernetes_secrets that requests are drawn with
SecretRefs ==
    {<<"secret-name", "secret-key">>,
     <<"other-namespace", "secret-name", "secret-key">>,
     <<"secret-name", "no-key">>,
     <<"no-secret", "secret-key">>,
     <<"other-namespace", "secret-name", "secret-key", "x">>,
     <<"secret-name">>}

\* the maps from some variable names to the values of V
Maps(V) == UNION {[D -> V] : D \in SUBSET VarNames}

\* the secrets of the cluster: namespace, name and the value of each key
KubeSecrets ==
    {[namespace |-> <<"test-space">>, name |-> <<"secret-name">>,
      key |-> <<"secret-key">>, value |-> "own-value"],
     [namespace |-> <<"other-namespace">>, name |-> <<"secret-name">>,
      key |-> <<"secret-key">>, value |-> "other-value"]}

\* strings.SplitN(secret, "/", 3)
SplitN3(ref) ==
    IF Len(ref) <= 3 THEN [i \in 1..Len(ref) |-> <<ref[i]>>]
    ELSE <<<<ref[1]>>, <<ref[2]>>, SubSeq(ref, 3, Len(ref))>>

\* a resolution that looks every secret up in the request's own namespace
secretOf_OwnNamespace(parts) ==
    IF Len(parts) > 2
    THEN [namespace |-> PayloadNamespace, name |-> parts[2], key |-> parts[3]]
    ELSE [namespace |-> PayloadNamespace, name |-> parts[1], key |-> parts[2]]

\* buildEnvVars: namespace, secretName and secretKey of a reference of two
\* parts at least
secretOf(parts) ==
    IF Len(parts) > 2
    THEN [namespace |-> parts[1], name |-> parts[2], key |-> parts[3]]
    ELSE [namespace |-> PayloadNamespace, name |-> parts[1], key |-> parts[2]]

\* a request is drawn: its direct variables, its secret references, and
\* whether the launch handler has a Kubernetes client
EnvInit ==
    /\ h = [r \in Reqs |-> newSingleRequestHandler]
    /\ cmd = [r \in Reqs |-> NoTestRun]
    /\ released = [r \in Reqs |-> <<>>]
    /\ availableTestRuns = MaxConcurrentTests
    /\ processToWaitFor = <<>>
    /\ ctxDone = FALSE
    /\ dispatcher = "loop"
    /\ reaper = [r \in Reqs |-> "none"]
    /\ waitForProcessesDone = 0
    /\ metricTestDuration = {}
    /\ lastFailureTime = [k \in Keys |-> NoTime]
    /\ now = 0
    /\ poll = NoPoll
    /\ summary = NoSummary
    /\ listen = NoListen
    /\ table = NoTable
    /\ memo = NoMemo
    /\ cloud = NoCloud
    /\ payload = NoPayload
    /\ \E e \in Maps(DirectValues), s \in Maps(SecretRefs), c \in BOOLEAN :
         env = [NoEnv EXCEPT !.envVars = e, !.secrets = s, !.kubeClient = c,
                             !.result = "none"]

envFrame == <<h, cmd, released, availableTestRuns, processToWaitFor, lhRest,
              metricTestDuration, lastFailureTime, now, poll, summary, payload, cloud, memo, table, listen>>

\* the calls of buildEnvVars that are looked at one after the other
MaxCalls == 2

\* the handler is done with a request and the next one arrives: the same
\* request once more, or one without env_vars and kubernetes_secrets; its
\* payload is decoded anew. What the first call returned is kept for comparison
Handle_NextRequest ==
    /\ env.result \notin {"unused", "none", "loop"}
    /\ env.calls < MaxCalls
    /\ \E same \in BOOLEAN :
         env' = [env EXCEPT
                   !.result = "none",
                   !.envVars = IF same THEN @ ELSE <<>>,
                   !.secrets = IF same THEN @ ELSE <<>>,
                   !.first = IF env.calls = 1
                             THEN [envVars |-> env.envVars,
                                   secrets |-> env.secrets,
                                   out |-> env.out, result |-> env.result]
                             ELSE @]
    /\ UNCHANGED envFrame

\* a resolution that keeps the map of the call before and adds to it
buildEnvVars_Begin_Accumulating ==
    /\ env.result = "none"
    /\ LET kept == [x \in DOMAIN env.out \cup DOMAIN env.envVars |->
                      IF x \in DOMAIN env.envVars THEN env.envVars[x]
                      ELSE env.out[x]]
       IN env' = IF DOMAIN env.secrets = {}
                 THEN [env EXCEPT !.out = kept, !.result = "ok",
                                  !.calls = @ + 1]
                 ELSE IF ~env.kubeClient
                 THEN [env EXCEPT
                         !.result = "kubernetes client is not configured",
                         !.calls = @ + 1]
                 ELSE [env EXCEPT !.out = kept, !.result = "loop",
                                  !.todo = DOMAIN env.secrets]
    /\ UNCHANGED envFrame

\* buildEnvVars up to its loop
buildEnvVars_Begin ==
    /\ env.result = "none"
    /\ env' = IF DOMAIN env.secrets = {}
              THEN [env EXCEPT !.out = env.envVars, !.result = "ok",
                               !.calls = @ + 1]
              ELSE IF ~env.kubeClient
              THEN [env EXCEPT !.result = "kubernetes client is not configured",
                               !.calls = @ + 1]
              ELSE [env EXCEPT !.out = env.envVars, !.result = "loop",
                               !.todo = DOMAIN env.secrets]
    /\ UNCHANGED envFrame

\* buildEnvVars: one pass of the loop over the secret references, in the order
\* in which the map yields them
buildEnvVars_Secret ==
    /\ env.result = "loop"
    /\ \E v \in env.todo :
         LET parts == SplitN3(env.secrets[v])
         IN IF Len(parts) < 2
            THEN \* parts[1] of a slice of one element
                 env' = [env EXCEPT !.result = "panic: index out of range",
                                    !.todo = {}, !.calls = @ + 1]
            ELSE LET ref == secretOf(parts)
                     named == {s \in KubeSecrets :
                                  /\ s.namespace = ref.namespace
                                  /\ s.name = ref.name}
                     keyed == {s \in named : s.key = ref.key}
                 IN IF named = {}
                    THEN env' = [env EXCEPT !.result = "error fetching secret",
                                            !.todo = {}, !.calls = @ + 1]
                    ELSE IF keyed = {}
                    THEN env' = [env EXCEPT
                                   !.result = "secret does not have key",
                                   !.todo = {}, !.calls = @ + 1]
                    ELSE env' = [env EXCEPT
                                   !.out = [x \in DOMAIN @ \cup {v} |->
                                              IF x = v
                                              THEN (CHOOSE s \in keyed : TRUE).value
                                              ELSE @[x]],
                                   !.todo = @ \ {v}]
    /\ UNCHANGED envFrame

\* buildEnvVars: the loop is over
buildEnvVars_Return ==
    /\ env.result = "loop"
    /\ env.todo = {}
    /\ env' = [env EXCEPT !.result = "ok", !.calls = @ + 1]
    /\ UNCHANGED envFrame

EnvNext ==
    \/ buildEnvVars_Begin
    \/ buildEnvVars_Secret
    \/ buildEnvVars_Return
    \/ Handle_NextRequest

EnvSpec == EnvInit /\ [][EnvNext]_vars

\* ------------------------------------------------------ payload validation

\* launchPayload.validate: min_failure_delay when the request gives none, in
\* seconds
DefaultMinFailureDelay == 120

\* what a field of the request's JSON holds: it is absent, or it is a string
RequiredTexts == {"absent", "", "x"}
BoolTexts == {"absent", "", "true", "false", "bad"}
DurationTexts == {"absent", "", "3m", "bad"}
MapTexts == {"absent", "", "{}", "[]"}

\* the requests that are drawn: the metadata fields in all their values, the
\* base fields of the webhook missing one at a time
Requests ==
    {[body |-> b, name |-> n, namespace |-> ns, phase |-> ph, script |-> sc,
      upload_to_cloud |-> u, wait_for_results |-> w, min_failure_delay |-> d,
      env_vars |-> e, kubernetes_secrets |-> k] :
        b \in {"json"}, n \in {"x"}, ns \in {"x"}, ph \in {"x"},
        sc \in RequiredTexts, u \in BoolTexts, w \in BoolTexts,
        d \in DurationTexts, e \in MapTexts, k \in MapTexts}
    \cup
    {[body |-> b, name |-> n, namespace |-> ns, phase |-> ph, script |-> sc,
      upload_to_cloud |-> u, wait_for_results |-> "absent",
      min_failure_delay |-> "absent", env_vars |-> "absent",
      kubernetes_secrets |-> "absent"] :
        b \in {"nil", "bad", "json"}, n \in RequiredTexts,
        ns \in RequiredTexts, ph \in RequiredTexts, sc \in RequiredTexts,
        u \in {"absent", "bad"}}

\* json.Decoder.Decode into a string field: an absent field leaves ""
Decode(text) == IF text = "absent" THEN "" ELSE text

\* strconv.ParseBool
ParseBool(str) ==
    IF str \in {"1", "t", "T", "TRUE", "true", "True"}
    THEN [ok |-> TRUE, value |-> TRUE]
    ELSE IF str \in {"0", "f", "F", "FALSE", "false", "False"}
    THEN [ok |-> TRUE, value |-> FALSE]
    ELSE [ok |-> FALSE, value |-> FALSE]

\* time.ParseDuration on the texts that are drawn, in seconds
ParseDuration(str) ==
    IF str = "3m" THEN [ok |-> TRUE, value |-> 180]
    ELSE [ok |-> FALSE, value |-> 0]

\* json.Unmarshal into a map[string]string on the texts that are drawn
UnmarshalMap(str) == [ok |-> str = "{}"]

\* the payload that a failed call returns
Rejected(msg) ==
    [err |-> msg, UploadToCloud |-> FALSE, WaitForResults |-> FALSE,
     MinFailureDelay |-> 0]

\* flaggerWebhook.validateBaseWebhook: the error, "" when there is none
validateBaseWebhook(req) ==
    IF Decode(req.name) = "" THEN "missing name"
    ELSE IF Decode(req.namespace) = "" THEN "missing namespace"
    ELSE IF Decode(req.phase) = "" THEN "missing phase"
    ELSE ""

\* a validation that looks at wait_for_results before upload_to_cloud
validate_WaitFirst(req) ==
    IF Decode(req.script) = "" THEN Rejected("missing script")
    ELSE
    LET u == Decode(req.upload_to_cloud)
        w == Decode(req.wait_for_results)
        d == Decode(req.min_failure_delay)
        e == Decode(req.env_vars)
        k == Decode(req.kubernetes_secrets)
    IN IF w # "" /\ ~ParseBool(w).ok
       THEN Rejected("error parsing value for 'wait_for_results'")
       ELSE IF u # "" /\ ~ParseBool(u).ok
       THEN Rejected("error parsing value for 'upload_to_cloud'")
       ELSE IF d # "" /\ ~ParseDuration(d).ok
       THEN Rejected("error parsing value for 'min_failure_delay'")
       ELSE IF e # "" /\ ~UnmarshalMap(e).ok
       THEN Rejected("error parsing value for 'env_vars'")
       ELSE IF k # "" /\ ~UnmarshalMap(k).ok
       THEN Rejected("error parsing value for 'kubernetes_secrets'")
       ELSE [err |-> "",
             UploadToCloud |-> IF u = "" THEN FALSE ELSE ParseBool(u).value,
             WaitForResults |-> IF w = "" THEN TRUE ELSE ParseBool(w).value,
             MinFailureDelay |-> IF d = "" THEN DefaultMinFailureDelay
                                 ELSE ParseDuration(d).value]

\* launchPayload.validate
validate(req) ==
    IF Decode(req.script) = "" THEN Rejected("missing script")
    ELSE
    LET u == Decode(req.upload_to_cloud)
        w == Decode(req.wait_for_results)
        d == Decode(req.min_failure_delay)
        e == Decode(req.env_vars)
        k == Decode(req.kubernetes_secrets)
    IN IF u # "" /\ ~ParseBool(u).ok
       THEN Rejected("error parsing value for 'upload_to_cloud'")
       ELSE IF w # "" /\ ~ParseBool(w).ok
       THEN Rejected("error parsing value for 'wait_for_results'")
       ELSE IF d # "" /\ ~ParseDuration(d).ok
       THEN Rejected("error parsing value for 'min_failure_delay'")
       ELSE IF e # "" /\ ~UnmarshalMap(e).ok
       THEN Rejected("error parsing value for 'env_vars'")
       ELSE IF k # "" /\ ~UnmarshalMap(k).ok
       THEN Rejected("error parsing value for 'kubernetes_secrets'")
       ELSE [err |-> "",
             UploadToCloud |-> IF u = "" THEN FALSE ELSE ParseBool(u).value,
             WaitForResults |-> IF w = "" THEN TRUE ELSE ParseBool(w).value,
             MinFailureDelay |-> IF d = "" THEN DefaultMinFailureDelay
                                 ELSE ParseDuration(d).value]

\* newLaunchPayload
newLaunchPayload(req) ==
    IF req.body = "nil" THEN Rejected("no request body")
    ELSE IF req.body # "json" THEN Rejected("invalid character")
    ELSE IF validateBaseWebhook(req) # ""
    THEN Rejected(validateBaseWebhook(req))
    ELSE validate(req)

\* a request arrives
PayloadInit ==
    /\ h = [r \in Reqs |-> newSingleRequestHandler]
    /\ cmd = [r \in Reqs |-> NoTestRun]
    /\ released = [r \in Reqs |-> <<>>]
    /\ availableTestRuns = MaxConcurrentTests
    /\ processToWaitFor = <<>>
    /\ ctxDone = FALSE
    /\ dispatcher = "loop"
    /\ reaper = [r \in Reqs |-> "none"]
    /\ waitForProcessesDone = 0
    /\ metricTestDuration = {}
    /\ lastFailureTime = [k \in Keys |-> NoTime]
    /\ now = 0
    /\ poll = NoPoll
    /\ summary = NoSummary
    /\ listen = NoListen
    /\ table = NoTable
    /\ memo = NoMemo
    /\ cloud = NoCloud
    /\ env = NoEnv
    /\ \E req \in Requests : payload = [state |-> "request", req |-> req]

payloadFrame == <<h, cmd, released, availableTestRuns, processToWaitFor, lhRest,
                  metricTestDuration, lastFailureTime, now, poll, summary, env, cloud, memo, table, listen>>

\* Handle calls newLaunchPayload(h.req)
Handle_newLaunchPayload ==
    /\ payload.state = "request"
    /\ payload' = [state |-> "parsed", req |-> payload.req,
                   p |-> newLaunchPayload(payload.req)]
    /\ UNCHANGED payloadFrame

\* Handle around newLaunchPayload: the steps of the request that follow from
\* what the call returned
PayloadNext ==
    \/ Handle_newLaunchPayload
    \/ /\ payload.state = "parsed" /\ payload.p.err # ""
       /\ Handle_Admit(PollReq)
       /\ h'[PollReq].pc = "release_invalid"
    \/ /\ payload.state = "parsed" /\ payload.p.err = ""
       /\ Handle_Admit(PollReq)
       /\ h'[PollReq].pc = "memo"
       /\ h'[PollReq].wfr = payload.p.WaitForResults
    \/ /\ payload.state = "parsed"
       /\ Handle_ReleaseInvalid(PollReq)

PayloadSpec == PayloadInit /\ [][PayloadNext]_vars

\* --------------------------------------------------------------- cloud URL

\* the most lines of captured output
MaxOutputLines == 2

\* a line of the captured output that holds a URL: whether the URL stands in
\* k6's "output: cloud (...)", its host, its path up to the run number, and
\* whether a run number and the closing bracket follow
OutputHosts == {"app.k6.io", "somewhere.grafana.net", "somewhere.grafanaXnet",
                "example.com"}
OutputPaths == {"/runs/", "/a/k6-app/runs/"}
OutputLines ==
    [frame : BOOLEAN, host : OutputHosts, path : OutputPaths, run : BOOLEAN]

\* the outputs that are drawn
Outputs == UNION {[1..n -> OutputLines] : n \in 0..MaxOutputLines}

\* payload.Metadata.NotificationContext
NotificationContext == <<"extra context">>

\* [^/]+\.grafana.net : the dot before "net" stands for any character
MatchesGrafanaNet(host) ==
    host \in {"somewhere.grafana.net", "somewhere.grafanaXnet"}

\* outputRegex matches in the line
outputRegex(line) ==
    /\ line.frame
    /\ \/ line.host = "app.k6.io" /\ line.path = "/runs/"
       \/ MatchesGrafanaNet(line.host) /\ line.path = "/a/k6-app/runs/"
    /\ line.run

\* getCloudURL: the URL of the leftmost match, or the error
getCloudURL(output) ==
    LET matching == {i \in DOMAIN output : outputRegex(output[i])}
    IN IF matching = {}
       THEN [err |-> "couldn't find the cloud URL in the output"]
       ELSE LET i == CHOOSE x \in matching : \A y \in matching : x <= y
            IN [err |-> "", url |-> [host |-> output[i].host,
                                    path |-> output[i].path]]

\* the process is started and the marker was seen
CloudInit ==
    /\ h = [r \in Reqs |-> newSingleRequestHandler]
    /\ cmd = [r \in Reqs |-> NoTestRun]
    /\ released = [r \in Reqs |-> <<>>]
    /\ availableTestRuns = MaxConcurrentTests
    /\ processToWaitFor = <<>>
    /\ ctxDone = FALSE
    /\ dispatcher = "loop"
    /\ reaper = [r \in Reqs |-> "none"]
    /\ waitForProcessesDone = 0
    /\ metricTestDuration = {}
    /\ lastFailureTime = [k \in Keys |-> NoTime]
    /\ now = 0
    /\ poll = NoPoll
    /\ summary = NoSummary
    /\ listen = NoListen
    /\ table = NoTable
    /\ memo = NoMemo
    /\ env = NoEnv
    /\ payload = NoPayload
    /\ \E o \in Outputs, u \in BOOLEAN :
         cloud = [state |-> "start", output |-> o, UploadToCloud |-> u,
                  slackContext |-> NotificationContext, sent |-> <<>>]

cloudFrame == <<h, cmd, released, availableTestRuns, processToWaitFor, lhRest,
                metricTestDuration, lastFailureTime, now, poll, summary, env,
                payload, memo, table, listen>>

\* singleRequestHandler.attachCloudURL
attachCloudURL ==
    /\ cloud.state = "start"
    /\ cloud' = IF ~cloud.UploadToCloud
                THEN [cloud EXCEPT !.state = "attached"]
                ELSE IF getCloudURL(cloud.output).err # ""
                THEN [cloud EXCEPT !.state = "failed"]
                ELSE [cloud EXCEPT
                        !.state = "attached",
                        !.slackContext =
                            Append(@, [cloudURL |-> getCloudURL(cloud.output).url])]
    /\ UNCHANGED cloudFrame

\* Handle: sendSlackMessage("has started")
sendSlackMessage ==
    /\ cloud.state = "attached"
    /\ cloud' = [cloud EXCEPT
                   !.state = "started",
                   !.sent = Append(@, [msg |-> "has started",
                                       context |-> cloud.slackContext])]
    /\ UNCHANGED cloudFrame

\* processResult: updateSlackMessage with the result of the run
updateSlackMessage ==
    /\ cloud.state = "started"
    /\ \E m \in {"has succeeded", "has failed"} :
         cloud' = [cloud EXCEPT
                     !.state = "done",
                     !.sent = Append(@, [msg |-> m,
                                         context |-> cloud.slackContext])]
    /\ UNCHANGED cloudFrame

CloudNext ==
    \/ attachCloudURL
    \/ sendSlackMessage
    \/ updateSlackMessage

CloudSpec == CloudInit /\ [][CloudNext]_vars

\* ------------------------------- from the start of the process to the answer

\* Handle after client.Start succeeded: the poll for the marker is about to
\* begin, the captured output and upload_to_cloud are those of the request
StartInit ==
    /\ \E w \in BOOLEAN, k \in Keys :
         h = [r \in Reqs |->
                IF r = PollReq
                THEN [newSingleRequestHandler EXCEPT
                         !.pc = "poll", !.testRunRequested = TRUE,
                         !.wfr = w, !.key = k,
                         !.processCtx = "live", !.watcher = "watching"]
                ELSE newSingleRequestHandler]
    /\ cmd = [r \in Reqs |-> IF r = PollReq
                             THEN [NoTestRun EXCEPT !.state = "running"]
                             ELSE NoTestRun]
    /\ released = [r \in Reqs |-> <<>>]
    /\ availableTestRuns = MaxConcurrentTests - 1
    /\ processToWaitFor = <<>>
    /\ ctxDone = FALSE
    /\ dispatcher = "loop"
    /\ reaper = [r \in Reqs |-> "none"]
    /\ waitForProcessesDone = 0
    /\ metricTestDuration = {}
    /\ lastFailureTime = [k \in Keys |-> NoTime]
    /\ now = 0
    /\ \E m \in {0, PollAttempts - 1, PollAttempts} :
         poll = [NoPoll EXCEPT !.pc = "check", !.markerAfter = m]
    /\ summary = NoSummary
    /\ listen = NoListen
    /\ table = NoTable
    /\ memo = NoMemo
    /\ env = NoEnv
    /\ payload = NoPayload
    /\ \E o \in {x \in Outputs : Len(x) <= 1}, u \in BOOLEAN :
         cloud = [state |-> "start", output |-> o, UploadToCloud |-> u,
                  slackContext |-> NotificationContext, sent |-> <<>>]

\* Handle from waitForOutputPath on: startK6Test's poll, attachCloudURL, the
\* start notification, processResult and failRequest of the one request
StartNext ==
    \/ waitForOutputPath_Check
    \/ waitForOutputPath_Sleep
    \/ waitForOutputPath_Timeout
    \/ poll.result = "timeout" /\ Handle_ReadinessTimeout(PollReq)
    \/ poll.result = "ok" /\ h[PollReq].pc = "poll" /\ attachCloudURL
    \/ cloud.state = "failed" /\ Handle_NoCloudURL(PollReq)
    \/ cloud.state = "attached" /\ Handle_Started(PollReq)
    \/ Handle_Register(PollReq)
    \/ Process_Exit(PollReq)
    \/ Handle_Wait(PollReq)
    \/ Handle_ReleaseSync(PollReq)
    \/ Handle_FailRequest(PollReq)
    \/ Handle_FailRelease(PollReq)

StartSpec == StartInit /\ [][StartNext]_vars

\* ------------------------------------------- the failure memo, concurrently

\* the configured maximum of concurrent runs where requests meet at the memo
MemoPermits == 2

\* a launch handler with MemoPermits permits and no request yet
MemoInit ==
    /\ h = [r \in Reqs |-> newSingleRequestHandler]
    /\ cmd = [r \in Reqs |-> NoTestRun]
    /\ released = [r \in Reqs |-> <<>>]
    /\ availableTestRuns = MaxConcurrentTests
    /\ processToWaitFor = <<>>
    /\ ctxDone = FALSE
    /\ dispatcher = "loop"
    /\ reaper = [r \in Reqs |-> "none"]
    /\ waitForProcessesDone = 0
    /\ metricTestDuration = {}
    /\ lastFailureTime = [k \in Keys |-> NoTime]
    /\ now = 0
    /\ poll = NoPoll
    /\ summary = NoSummary
    /\ listen = NoListen
    /\ table = NoTable
    /\ env = NoEnv
    /\ payload = NoPayload
    /\ cloud = NoCloud
    /\ memo = [NoMemo EXCEPT
                 !.permits = MemoPermits,
                 !.req = [r \in Reqs |-> [pc |-> "idle", key |-> "none",
                                          delay |-> 0]]]

memoFrame == <<h, cmd, released, availableTestRuns, processToWaitFor, lhRest,
               metricTestDuration, poll, summary, env, payload, cloud, table, listen>>

\* Handle: requestTestRun succeeded and the payload is valid
Memo_Admit(r) ==
    /\ memo.req[r].pc = "idle"
    /\ memo.permits > 0
    /\ \E k \in Keys, d \in Delays :
         memo' = [memo EXCEPT !.permits = @ - 1,
                              !.req[r] = [pc |-> "memo", key |-> k,
                                          delay |-> d]]
    /\ UNCHANGED <<memoFrame, lastFailureTime, now>>

\* a check that also refuses a request while another run of its key is started
checkAgainstLastFailureTime_Exclusive(r) ==
    /\ memo.req[r].pc = "memo"
    /\ memo' = [memo EXCEPT !.req[r].pc =
                  IF \/ TooSoon(memo.req[r].key, memo.req[r].delay)
                     \/ \E q \in Reqs \ {r} :
                           /\ memo.req[q].pc = "running"
                           /\ memo.req[q].key = memo.req[r].key
                  THEN "fail" ELSE "checked"]
    /\ UNCHANGED <<memoFrame, lastFailureTime, now>>

\* singleRequestHandler.checkAgainstLastFailureTime: getLastFailureTime under
\* the mutex, then the comparison
checkAgainstLastFailureTime(r) ==
    /\ memo.req[r].pc = "memo"
    /\ memo' = [memo EXCEPT !.req[r].pc =
                  IF TooSoon(memo.req[r].key, memo.req[r].delay)
                  THEN "fail" ELSE "checked"]
    /\ UNCHANGED <<memoFrame, lastFailureTime, now>>

\* startK6Test: the process is started
Memo_Start(r) ==
    /\ memo.req[r].pc = "checked"
    /\ memo' = [memo EXCEPT !.req[r].pc = "running"]
    /\ UNCHANGED <<memoFrame, lastFailureTime, now>>

\* the run is over: it succeeded and the permit is returned, or it failed
Memo_Result(r) ==
    /\ memo.req[r].pc = "running"
    /\ \/ memo' = [memo EXCEPT !.req[r].pc = "succeeded", !.permits = @ + 1]
       \/ memo' = [memo EXCEPT !.req[r].pc = "fail"]
    /\ UNCHANGED <<memoFrame, lastFailureTime, now>>

\* failRequest: setLastFailureTime under the mutex, the answer, the permit
Memo_failRequest(r) ==
    /\ memo.req[r].pc = "fail"
    /\ lastFailureTime' = setLastFailureTime(memo.req[r].key)
    /\ memo' = [memo EXCEPT !.req[r].pc = "failed", !.permits = @ + 1]
    /\ UNCHANGED <<memoFrame, now>>

\* the request is answered; the next request of the same caller
Memo_NextRequest(r) ==
    /\ memo.req[r].pc \in {"succeeded", "failed"}
    /\ memo' = [memo EXCEPT !.req[r] = [pc |-> "idle", key |-> "none",
                                        delay |-> 0]]
    /\ UNCHANGED <<memoFrame, lastFailureTime, now>>

MemoNext ==
    \/ \E r \in Reqs : Memo_Admit(r)
    \/ \E r \in Reqs : checkAgainstLastFailureTime(r)
    \/ \E r \in Reqs : Memo_Start(r)
    \/ \E r \in Reqs : Memo_Result(r)
    \/ \E r \in Reqs : Memo_failRequest(r)
    \/ \E r \in Reqs : Memo_NextRequest(r)
    \/ Tick

MemoSpec == MemoInit /\ [][MemoNext]_vars

\* ------------------------------------------- the last-failure table itself

\* the identity of a run: launchPayload's Namespace, Name and Phase; a string
\* is the sequence of its dash-free parts and of its dashes
Targets == [namespace : {<<"a">>, <<"a", "-", "b">>},
            name : {<<"c">>, <<"b", "-", "c">>},
            phase : {<<"rollout">>}]

\* launchPayload.key: fmt.Sprintf("%s-%s-%s", p.Namespace, p.Name, p.Phase)
key(p) == p.namespace \o <<"-">> \o p.name \o <<"-">> \o p.phase

\* a request that is not being handled
NoTableReq == [pc |-> "idle", target |-> "none", delay |-> 0, key |-> <<>>,
               v |-> NoTime, ok |-> FALSE]

\* make(map[string]time.Time) and an unlocked lastFailureTimeMutex (0)
TableInit ==
    /\ h = [r \in Reqs |-> newSingleRequestHandler]
    /\ cmd = [r \in Reqs |-> NoTestRun]
    /\ released = [r \in Reqs |-> <<>>]
    /\ availableTestRuns = MaxConcurrentTests
    /\ processToWaitFor = <<>>
    /\ ctxDone = FALSE
    /\ dispatcher = "loop"
    /\ reaper = [r \in Reqs |-> "none"]
    /\ waitForProcessesDone = 0
    /\ metricTestDuration = {}
    /\ lastFailureTime = [k \in Keys |-> NoTime]
    /\ now = 0
    /\ poll = NoPoll
    /\ summary = NoSummary
    /\ listen = NoListen
    /\ env = NoEnv
    /\ payload = NoPayload
    /\ cloud = NoCloud
    /\ memo = NoMemo
    /\ table = [lock |-> 0, entries |-> <<>>,
                req |-> [r \in Reqs |-> NoTableReq]]

tableFrame == <<h, cmd, released, availableTestRuns, processToWaitFor, lhRest,
                metricTestDuration, lastFailureTime, poll, summary, env,
                payload, cloud, memo, listen>>

\* Handle: a valid payload with its identity and min_failure_delay
Table_Request(r) ==
    /\ table.req[r].pc = "idle"
    /\ \E t \in Targets, d \in Delays :
         table' = [table EXCEPT !.req[r] = [NoTableReq EXCEPT !.pc = "get",
                                                              !.target = t,
                                                              !.delay = d]]
    /\ UNCHANGED <<tableFrame, now>>

\* getLastFailureTime: h.lastFailureTimeMutex.Lock()
getLastFailureTime_Lock(r) ==
    /\ table.req[r].pc = "get"
    /\ table.lock = 0
    /\ table' = [table EXCEPT !.lock = r, !.req[r].pc = "get_locked"]
    /\ UNCHANGED <<tableFrame, now>>

\* getLastFailureTime: v, ok := h.lastFailureTime[payload.key()], then the
\* deferred Unlock
getLastFailureTime_Read(r) ==
    /\ table.req[r].pc = "get_locked"
    /\ LET k == key(table.req[r].target)
           present == k \in DOMAIN table.entries
       IN table' = [table EXCEPT
                      !.lock = 0,
                      !.req[r].pc = "compare",
                      !.req[r].key = k,
                      !.req[r].ok = present,
                      !.req[r].v = IF present THEN table.entries[k]
                                   ELSE NoTime]
    /\ UNCHANGED <<tableFrame, now>>

\* checkAgainstLastFailureTime: present && time.Since(v) < MinFailureDelay;
\* then failRequest, or the run
Table_Compare(r) ==
    /\ table.req[r].pc = "compare"
    /\ table' = [table EXCEPT !.req[r].pc =
                   IF table.req[r].ok /\ now - table.req[r].v < table.req[r].delay
                   THEN "set" ELSE "run"]
    /\ UNCHANGED <<tableFrame, now>>

\* the run succeeds, or a later step of Handle calls failRequest
Table_Run(r) ==
    /\ table.req[r].pc = "run"
    /\ \E to \in {"done", "set"} : table' = [table EXCEPT !.req[r].pc = to]
    /\ UNCHANGED <<tableFrame, now>>

\* setLastFailureTime: h.lastFailureTimeMutex.Lock()
setLastFailureTime_Lock(r) ==
    /\ table.req[r].pc = "set"
    /\ table.lock = 0
    /\ table' = [table EXCEPT !.lock = r, !.req[r].pc = "set_locked"]
    /\ UNCHANGED <<tableFrame, now>>

\* a write that starts the table afresh
setLastFailureTime_Write_Afresh(r) ==
    /\ table.req[r].pc = "set_locked"
    /\ LET k == key(table.req[r].target)
       IN table' = [table EXCEPT
                      !.lock = 0,
                      !.req[r].pc = "done",
                      !.req[r].key = k,
                      !.entries = [x \in {k} |-> now]]
    /\ UNCHANGED <<tableFrame, now>>

\* setLastFailureTime: h.lastFailureTime[payload.key()] = time.Now(), then
\* the deferred Unlock
setLastFailureTime_Write(r) ==
    /\ table.req[r].pc = "set_locked"
    /\ LET k == key(table.req[r].target)
       IN table' = [table EXCEPT
                      !.lock = 0,
                      !.req[r].pc = "done",
                      !.req[r].key = k,
                      !.entries = [x \in DOMAIN table.entries \cup {k} |->
                                     IF x = k THEN now ELSE table.entries[x]]]
    /\ UNCHANGED <<tableFrame, now>>

\* the request is answered; the caller's next request
Table_NextRequest(r) ==
    /\ table.req[r].pc = "done"
    /\ table' = [table EXCEPT !.req[r] = NoTableReq]
    /\ UNCHANGED <<tableFrame, now>>

\* time passes while the table has an entry
Table_Tick ==
    /\ now < MaxTime
    /\ DOMAIN table.entries # {}
    /\ now' = now + 1
    /\ UNCHANGED <<tableFrame, table>>

TableNext ==
    \/ \E r \in Reqs : Table_Request(r)
    \/ \E r \in Reqs : getLastFailureTime_Lock(r)
    \/ \E r \in Reqs : getLastFailureTime_Read(r)
    \/ \E r \in Reqs : Table_Compare(r)
    \/ \E r \in Reqs : Table_Run(r)
    \/ \E r \in Reqs : setLastFailureTime_Lock(r)
    \/ \E r \in Reqs : setLastFailureTime_Write(r)
    \/ \E r \in Reqs : Table_NextRequest(r)
    \/ Table_Tick

TableSpec == TableInit /\ [][TableNext]_vars

\* --------------------------------------------------------------- Listen

\* Listen is called with a notification client or with none (nil)
ListenInit ==
    /\ h = [r \in Reqs |-> newSingleRequestHandler]
    /\ cmd = [r \in Reqs |-> NoTestRun]
    /\ released = [r \in Reqs |-> <<>>]
    /\ availableTestRuns = MaxConcurrentTests
    /\ processToWaitFor = <<>>
    /\ ctxDone = FALSE
    /\ dispatcher = "loop"
    /\ reaper = [r \in Reqs |-> "none"]
    /\ waitForProcessesDone = 0
    /\ metricTestDuration = {}
    /\ lastFailureTime = [k \in Keys |-> NoTime]
    /\ now = 0
    /\ poll = NoPoll
    /\ summary = NoSummary
    /\ table = NoTable
    /\ memo = NoMemo
    /\ env = NoEnv
    /\ payload = NoPayload
    /\ cloud = NoCloud
    /\ \E c \in BOOLEAN :
         listen = [pc |-> "NewLaunchHandler", slackClient |-> c,
                   launchHandler |-> "none", err |-> "none",
                   returned |-> "none"]

listenFrame == <<h, cmd, released, availableTestRuns, processToWaitFor,
                 dispatcher, reaper, metricTestDuration, lastFailureTime, now,
                 poll, summary, env, payload, cloud, memo, table>>

\* Listen: handlers.NewLaunchHandler returns the handler, or nil and an
\* error when slackClient is nil; with the error Listen returns it, and the
\* deferred function begins with cancelLaunchCtx()
Listen_NewLaunchHandler ==
    /\ listen.pc = "NewLaunchHandler"
    /\ IF listen.slackClient
       THEN /\ listen' = [listen EXCEPT !.pc = "serving",
                                        !.launchHandler = "handler"]
            /\ UNCHANGED ctxDone
       ELSE /\ listen' = [listen EXCEPT
                            !.pc = "Wait",
                            !.launchHandler = "nil",
                            !.err = "unexpected state. Slack client is nil"]
            /\ ctxDone' = TRUE
    /\ UNCHANGED <<listenFrame, waitForProcessesDone>>

\* Listen: srv.ListenAndServe() returns its error; the deferred function
\* begins with cancelLaunchCtx()
Listen_ListenAndServe ==
    /\ listen.pc = "serving"
    /\ listen' = [listen EXCEPT !.pc = "Wait", !.err = "server closed"]
    /\ ctxDone' = TRUE
    /\ UNCHANGED <<listenFrame, waitForProcessesDone>>

\* Listen's deferred function, continued: launchHandler.Wait(), a method call
\* on the interface value, which receives from waitForProcessesDone; then
\* Listen returns its error
Listen_Wait ==
    /\ listen.pc = "Wait"
    /\ IF listen.launchHandler = "nil"
       THEN /\ listen' = [listen EXCEPT !.pc = "panicked"]
            /\ UNCHANGED waitForProcessesDone
       ELSE /\ waitForProcessesDone > 0
            /\ waitForProcessesDone' = waitForProcessesDone - 1
            /\ listen' = [listen EXCEPT !.pc = "returned",
                                        !.returned = listen.err]
    /\ UNCHANGED <<listenFrame, ctxDone>>

\* Listen and, once the launch handler exists, the handler at work
ListenNext ==
    \/ Listen_NewLaunchHandler
    \/ Listen_ListenAndServe
    \/ Listen_Wait
    \/ listen.launchHandler = "handler" /\ Next

ListenSpec == ListenInit /\ [][ListenNext]_vars

\* ------------------------------------------------------------ properties

\* the request was admitted by the gate
Admitted(r) == h[r].pc # "idle" /\ h[r].resp.code # 429

\* the handle was handed to the reaper
Registered(r) ==
    (\E i \in 1..Len(processToWaitFor) : processToWaitFor[i] = r)
        \/ reaper[r] # "none"

\* the run occupies a slot: an admitted request whose permit was not yet
\* returned, or a handed-off process whose permit the reaper did not yet return
Occupies(r) ==
    /\ Admitted(r)
    /\ IF Registered(r)
       THEN reaper[r] # "done"
       ELSE released[r] = <<>>

Occupied == Cardinality({r \in Reqs : Occupies(r)})

\* C1: the runs occupying a slot never outnumber the configured maximum, and
\* the pool never holds more permits than the maximum
C1_SlotsNeverExceedMaximum ==
    /\ Occupied <= MaxConcurrentTests
    /\ availableTestRuns <= MaxConcurrentTests

\* nothing is left to do for the run of an admitted request: Handle returned
\* and the process, if one was started, was collected by its waiter
RunOver(r) ==
    /\ h[r].pc \in {"done", "panicked"}
    /\ \/ cmd[r].state = "none"
       \/ reaper[r] = "done"
       \/ ~Registered(r) /\ ~h[r].asyncCleanup /\ cmd[r].waits # <<>>

\* C2: an admitted request causes exactly one permit release over its whole
\* lifetime: never more than one, and one once its run is over
C2_ExactlyOneRelease ==
    \A r \in Reqs :
        /\ Len(released[r]) <= 1
        /\ Admitted(r) /\ RunOver(r) => Len(released[r]) = 1

\* no request is being handled and every started process was collected
Quiescent ==
    \A r \in Reqs :
        \/ h[r].pc = "idle"
        \/ h[r].pc \in {"done", "panicked"} /\ (Admitted(r) => RunOver(r))

\* C3: whenever no request is being handled and every started process has
\* been waited on (its waiter is through with it), all permits are available
C3_NoPermitLeak == Quiescent => availableTestRuns = MaxConcurrentTests

C3_Witness ==
    /\ Quiescent
    /\ \E r \in Reqs : reaper[r] = "done" /\ h[r].resp.code = 400
    /\ \E r \in Reqs : cmd[r].waits = <<"handler">>

\* C4: a request that arrives while the runs occupying a slot number the
\* configured maximum is answered 429 with a Retry-After header
C4_RejectedWhenFull ==
    [][\A r \in Reqs :
          (h[r].pc = "idle" /\ h'[r].pc # "idle" /\ Occupied >= MaxConcurrentTests)
              => (h'[r].resp.code = 429 /\ h'[r].resp.retryAfter # NoTime)]_vars

\* C5: a request rejected at admission has no other effect: no payload is
\* parsed, the failure memo, the permit pool, the processes, the reaper and
\* the notifications are left alone
C5_RejectionHasNoOtherEffect ==
    [][\A r \in Reqs :
          (h[r].pc = "idle" /\ h'[r].resp.code = 429)
              => /\ UNCHANGED <<cmd, released, availableTestRuns, processToWaitFor,
                                ctxDone, dispatcher, reaper, waitForProcessesDone,
                                metricTestDuration, lastFailureTime, now>>
                 /\ \A q \in Reqs \ {r} : h'[q] = h[q]
                 /\ h'[r] = [newSingleRequestHandler EXCEPT
                               !.pc = "done", !.requestCtx = "cancelled",
                               !.resp = h'[r].resp]]_vars

C5_Witness ==
    \E r \in Reqs : /\ h[r].resp.code = 429
                    /\ h[r].pc = "done"
                    /\ availableTestRuns = 0
                    /\ lastFailureTime["ns-name-phase"] # NoTime

C7_AsyncRunSurvivesDisconnect ==
    \A r \in Reqs :
        (~h[r].wfr /\ h[r].processCtx = "cancelled") =>
            \/ ctxDone
            \/ cmd[r].cleaned /\ cmd[r].state = "exited"
            \/ h[r].resp.code = 400

C7_Witness ==
    \E r \in Reqs : /\ ~h[r].wfr
                    /\ h[r].pc = "done"
                    /\ h[r].resp.code = 200
                    /\ h[r].requestCtx = "cancelled"
                    /\ h[r].processCtx = "live"
                    /\ cmd[r].state = "running"
                    /\ ~ctxDone

\* C8: for a wait_for_results=true run, the cancellation of the inbound request
\* while the process runs leads to the cancellation of the run's scope and to
\* the death of the process, and a handler blocked in Wait gets out of it; the
\* global shutdown leads to the cancellation of the scope of every run in
\* flight
C8_CancellationReachesTheRun ==
    \A r \in Reqs :
        /\ (h[r].wfr /\ h[r].requestCtx = "cancelled" /\ cmd[r].state = "running")
               ~> (h[r].processCtx = "cancelled" /\ cmd[r].state = "exited")
        /\ (h[r].wfr /\ h[r].requestCtx = "cancelled" /\ h[r].pc = "wait")
               ~> (h[r].pc # "wait")
        /\ (ctxDone /\ h[r].processCtx = "live")
               ~> (h[r].processCtx = "cancelled")

C8_Witness ==
    \E r \in Reqs : /\ h[r].wfr
                    /\ h[r].pc = "release_sync"
                    /\ h[r].requestCtx = "cancelled"
                    /\ h[r].watcher = "done"
                    /\ h[r].processCtx = "cancelled"
                    /\ cmd[r].state = "exited"
                    /\ cmd[r].waitErr
                    /\ ~ctxDone

\* the handle sits in the intake queue
InQueue(r) == \E i \in 1..Len(processToWaitFor) : processToWaitFor[i] = r

\* C9: every handle that registerProcessCleanup put into the intake queue
\* while the dispatcher was running gets its worker (Registered -> Waiting is
\* never skipped), also when the global shutdown fires while the handle is
\* still in the queue
C9_EveryHandleIsWaitedOn ==
    \A r \in Reqs :
        (InQueue(r) /\ dispatcher = "loop" /\ ~ctxDone) ~> (reaper[r] # "none")

C11_ReaperDrainsWithoutKilling ==
    [][/\ (reaper' # reaper \/ dispatcher' # dispatcher) =>
              \A r \in Reqs :
                  cmd[r].state = "running" =>
                      /\ cmd'[r].state = "running"
                      /\ h'[r].processCtx = h[r].processCtx
       /\ waitForProcessesDone' = 1 => \A r \in Reqs : ~WorkerActive(r)']_vars

C11_Witness ==
    /\ ctxDone
    /\ dispatcher = "wg.Wait"
    /\ waitForProcessesDone = 0
    /\ \E r \in Reqs : /\ reaper[r] = "wait"
                       /\ cmd[r].state = "running"
                       /\ h[r].processCtx = "live"

\* C12: after the global shutdown, with every started process exiting in the
\* end, waitForProcesses sends its completion signal (launchHandler.Wait
\* returns): no worker stays blocked forever on returning its permit
C12_ShutdownCompletes == ctxDone ~> (waitForProcessesDone = 1)

ErrTimeout == "error while waiting for test to start: timeout"
ErrNoCloudURL == "couldn't find the cloud URL in the output"

\* how often the handle of r was handed to the reaper
Registrations(r) ==
    Cardinality({i \in 1..Len(processToWaitFor) : processToWaitFor[i] = r})
        + (IF reaper[r] # "none" THEN 1 ELSE 0)

\* C13: a request that fails on the readiness timeout or on the missing cloud
\* URL is answered 400 and its started process is registered with the reaper
\* exactly once; on the timeout the 'didn't start successfully' notification
\* and the captured output are sent before the 400 is written
C13_FailedStartIsStillReaped ==
    \A r \in Reqs :
        /\ Registrations(r) <= 1
        /\ h[r].pc = "register_timeout" =>
               /\ h[r].slack = <<"didn't start successfully", "file">>
               /\ h[r].resp.code = 0
               /\ Registrations(r) = 0
        /\ (h[r].pc = "fail" /\ h[r].err = ErrTimeout) =>
               /\ h[r].slack = <<"didn't start successfully", "file">>
               /\ h[r].resp.code = 0
               /\ Registrations(r) = 1
        /\ (h[r].pc = "done" /\ h[r].resp.body \in {ErrTimeout, ErrNoCloudURL}) =>
               /\ h[r].resp.code = 400
               /\ cmd[r].state # "none"
               /\ Registrations(r) = 1

C13_Witness ==
    /\ \E r \in Reqs : /\ h[r].pc = "done"
                       /\ h[r].resp.body = ErrTimeout
                       /\ h[r].resp.code = 400
                       /\ Registrations(r) = 1
    /\ \E r \in Reqs : /\ h[r].pc = "done"
                       /\ h[r].resp.body = ErrNoCloudURL
                       /\ h[r].resp.code = 400
                       /\ Registrations(r) = 1

ErrTooSoon == "not enough time since last failure"

\* C14: a request whose run key has a recorded failure younger than the
\* request's min_failure_delay is failed with 'not enough time since last
\* failure' (400) and starts no process; a request whose key has no failure,
\* or one at least min_failure_delay old, passes the memo check and goes on to
\* start its process
C14_MemoRejectsWithinDelay ==
    [][\A r \in Reqs :
          /\ (h[r].pc = "memo" /\ h'[r].pc # "memo") =>
                 IF /\ lastFailureTime[h[r].key] # NoTime
                    /\ now - lastFailureTime[h[r].key] < h[r].delay
                 THEN /\ h'[r].pc = "fail"
                      /\ h'[r].err = ErrTooSoon
                      /\ h'[r].processCtx = "none"
                      /\ cmd'[r].state = "none"
                 ELSE /\ h'[r].err # ErrTooSoon
                      /\ h'[r].processCtx # "none"
                      /\ h'[r].processCtx = "live" \/ h'[r].pc = "panicked"
                      /\ h'[r].pc \in {"poll", "fail", "panicked"}
          /\ (h'[r].pc = "done" /\ h'[r].resp.body = ErrTooSoon) =>
                 /\ h'[r].resp.code = 400
                 /\ cmd'[r].state = "none"]_vars

C14_Witness ==
    \E r, q \in Reqs :
        /\ r # q
        /\ h[r].pc = "done" /\ h[r].resp.code = 400 /\ h[r].resp.body = "failed to run"
        /\ h[q].pc = "done" /\ h[q].resp.code = 400 /\ h[q].resp.body = ErrTooSoon
        /\ h[q].key = h[r].key
        /\ cmd[q].state = "none"

\* C15: the failure memo is written only by a request that is being failed,
\* in the step that writes its 400, and a 400 is never replaced: a run that
\* ends with 200 has not written the memo, and a request whose key has no
\* recorded failure is not rejected by the memo check
C15_SuccessLeavesMemoAlone ==
    [][/\ lastFailureTime' # lastFailureTime =>
              \E r \in Reqs :
                  /\ h[r].pc = "fail"
                  /\ h'[r].resp.code = 400
                  /\ lastFailureTime' = [lastFailureTime EXCEPT ![h[r].key] = now]
       /\ \A r \in Reqs :
              /\ h[r].resp.code = 400 => h'[r].resp.code = 400
              /\ (h[r].pc = "memo" /\ h'[r].pc # "memo"
                      /\ lastFailureTime[h[r].key] = NoTime) =>
                     /\ h'[r].err # ErrTooSoon
                     /\ h'[r].processCtx # "none"
                     /\ h'[r].processCtx = "live" \/ h'[r].pc = "panicked"]_vars

C15_Witness ==
    \E r, q \in Reqs :
        /\ r < q
        /\ h[r].pc = "done" /\ h[r].resp = [NoResp EXCEPT !.code = 200, !.output = TRUE]
        /\ h[q].pc = "done" /\ h[q].resp = [NoResp EXCEPT !.code = 200, !.output = TRUE]
        /\ h[q].key = h[r].key
        /\ lastFailureTime[h[r].key] = NoTime
        /\ now = 0

ErrFailedToRun == "failed to run"

\* the last two notifications of the request
LastTwo(s) == IF Len(s) < 2 THEN s ELSE SubSeq(s, Len(s) - 1, Len(s))

\* C16: with wait_for_results=true the response is written only after the
\* handler's Wait returned: 200 with the captured output when Wait succeeded,
\* 400 'failed to run' followed by the output when it failed, the failure
\* time then recorded and the message updated to 'has failed'; the output is
\* uploaded before the message is updated and the permit is back in the pool
\* when Handle returns
C16_SynchronousResult ==
    \A r \in Reqs :
        h[r].wfr =>
            /\ h[r].resp.code = 200 =>
                   /\ cmd[r].waits = <<"handler">>
                   /\ ~cmd[r].waitErr
                   /\ h[r].resp.body = "" /\ h[r].resp.output
            /\ (h[r].resp.code = 400 /\ h[r].resp.body = ErrFailedToRun) =>
                   /\ cmd[r].waits = <<"handler">>
                   /\ cmd[r].waitErr
                   /\ h[r].resp.output
                   /\ lastFailureTime[h[r].key] # NoTime
            /\ h[r].pc = "wait" => h[r].resp.code = 0 /\ cmd[r].waits = <<>>
            /\ h[r].pc = "release_sync" =>
                   /\ cmd[r].waits = <<"handler">>
                   /\ LastTwo(h[r].slack) =
                          <<"file", IF cmd[r].waitErr THEN "has failed"
                                                       ELSE "has succeeded">>
                   /\ h[r].err = (IF cmd[r].waitErr THEN ErrFailedToRun ELSE "none")
            /\ (h[r].pc = "done" /\ cmd[r].waits = <<"handler">>) =>
                   /\ released[r] = <<"handler">>
                   /\ h[r].resp.code \in {200, 400}

C16_Witness ==
    \E r \in Reqs : /\ h[r].wfr
                    /\ h[r].pc = "done"
                    /\ h[r].resp = [NoResp EXCEPT !.code = 400,
                                        !.body = ErrFailedToRun, !.output = TRUE]
                    /\ cmd[r].waitErr
                    /\ released[r] = <<"handler">>
                    /\ lastFailureTime[h[r].key] = now

ErrValidation == "error while validating request"

\* C17: a request whose payload fails parsing or validation is answered 400
\* 'error while validating request', gets its permit returned by the handler
\* before it returns, starts no process, creates no scope, sends no
\* notification, registers nothing and leaves the failure memo, the samples
\* and the reaper alone
C17_InvalidPayload ==
    [][\A r \in Reqs :
          h'[r].resp.body = ErrValidation =>
              /\ h'[r].resp.code = 400
              /\ h'[r].pc \in {"release_invalid", "done"}
              /\ h'[r].pc = "release_invalid" => released'[r] = <<>>
              /\ h'[r].pc = "done" => released'[r] = <<"handler">>
              /\ cmd'[r] = NoTestRun
              /\ h'[r].slack = <<>>
              /\ h'[r].processCtx = "none" /\ h'[r].watcher = "none"
              /\ h'[r].key = "none"
              /\ reaper'[r] = "none" /\ ~InQueue(r)'
              /\ h'[r] # h[r] =>
                     UNCHANGED <<lastFailureTime, metricTestDuration, cmd,
                                 processToWaitFor, reaper, dispatcher>>]_vars

C17_Witness ==
    \E r \in Reqs : /\ h[r].pc = "done"
                    /\ h[r].resp = [NoResp EXCEPT !.code = 400, !.body = ErrValidation]
                    /\ released[r] = <<"handler">>
                    /\ cmd[r].state = "none"
                    /\ availableTestRuns = MaxConcurrentTests
                    /\ lastFailureTime["ns-name-phase"] = NoTime

ErrResolution == "resolution error"
ErrLaunch == "error while launching test"

\* C18: a request that fails in the resolution of its environment or in the
\* start of k6 is answered 400 with the error, has its failure time recorded,
\* has no process: nothing is registered with the reaper or waited on, and the
\* handler has returned the permit when it returns
C18_StartFailure ==
    \A r \in Reqs :
        /\ h[r].err \in {ErrResolution, ErrLaunch} =>
               /\ h[r].pc \in {"fail", "fail_release"}
               /\ cmd[r] = NoTestRun
               /\ released[r] = <<>>
        /\ h[r].resp.body \in {ErrResolution, ErrLaunch} =>
               /\ h[r].resp.code = 400
               /\ ~h[r].resp.output
               /\ lastFailureTime[h[r].key] # NoTime
               /\ cmd[r] = NoTestRun
               /\ Registrations(r) = 0
               /\ ~h[r].asyncCleanup
               /\ h[r].pc \in {"fail_release", "done"}
               /\ h[r].pc = "done" =>
                      released[r] = <<"handler">> /\ h[r].processCtx = "cancelled"

C18_Witness ==
    /\ \E r \in Reqs : /\ h[r].pc = "done"
                       /\ h[r].resp = [NoResp EXCEPT !.code = 400, !.body = ErrResolution]
                       /\ released[r] = <<"handler">>
    /\ \E r \in Reqs : /\ h[r].pc = "done"
                       /\ h[r].resp = [NoResp EXCEPT !.code = 400, !.body = ErrLaunch]
                       /\ released[r] = <<"handler">>
    /\ availableTestRuns = MaxConcurrentTests

\* what a step added to the notifications of the request
Added(old, new) == SubSeq(new, Len(old) + 1, Len(new))

C20_ReadinessPoll ==
    /\ poll.checks <= PollAttempts
    /\ poll.slept = PollSleepSeconds * poll.sleeps
    /\ poll.pc = "sleep" => poll.sleeps = poll.checks - 1
    /\ poll.pc = "check" => poll.sleeps = poll.checks
    /\ poll.result = "ok" =>
          /\ poll.markerAfter < PollAttempts
          /\ poll.checks = poll.markerAfter + 1
          /\ poll.sleeps = poll.checks - 1
    /\ poll.result = "timeout" =>
          /\ poll.markerAfter >= PollAttempts
          /\ poll.checks = PollAttempts
          /\ poll.sleeps = PollAttempts
    /\ h[PollReq].pc # "poll" => poll.pc = "done"
    /\ (poll.result = "timeout" /\ h[PollReq].pc = "done") =>
          h[PollReq].resp = [NoResp EXCEPT !.code = 400, !.body = ErrTimeout,
                                           !.output = TRUE]

\* a marker written during the last sleep: the poll timed out and the request
\* was answered
C20_Witness ==
    /\ poll.result = "timeout"
    /\ poll.markerAfter = PollAttempts
    /\ poll.slept = PollSleepSeconds * PollAttempts
    /\ h[PollReq].pc = "done"
    /\ h[PollReq].resp.code = 400

\* every duration recorded so far, whatever the exit code of its run
AllObserved ==
    LET RECURSIVE Cat(_)
        Cat(E) == IF E = {} THEN <<>>
                  ELSE LET e == CHOOSE x \in E : TRUE
                       IN summary.series[e] \o Cat(E \ {e})
    IN Cat(ExitCodes)

\* C21: the Retry-After value is a positive integer: the fallback when no run
\* duration has been recorded, else the median of the recorded durations in
\* whole seconds.
C21_RetryAfterIsTheMedian ==
    summary.retryAfter # NoTime =>
        /\ summary.retryAfter > 0
        /\ IF AllObserved = <<>>
           THEN summary.retryAfter = DefaultWaitTime
           ELSE summary.retryAfter \in Medians(AllObserved)

\* the value of a secret key as the request names it: 'name/key' in the
\* request's own namespace, 'ns/name/key' in the namespace ns
NamedValue(ref) ==
    LET found == {s \in KubeSecrets :
                    IF Len(ref) = 2
                    THEN /\ s.namespace = PayloadNamespace
                         /\ s.name = <<ref[1]>> /\ s.key = <<ref[2]>>
                    ELSE /\ s.namespace = <<ref[1]>>
                         /\ s.name = <<ref[2]>> /\ s.key = <<ref[3]>>}
    IN IF found = {} THEN "none" ELSE (CHOOSE s \in found : TRUE).value

\* C22: the environment passed to the engine is the direct map extended with
\* one entry per secret reference, holding the value of the key of the secret
\* in the namespace the reference names (the request's own when it names
\* none); for a variable given both ways the secret's value is passed.
C22_EnvironmentOfTheRun ==
    env.result = "ok" =>
        /\ DOMAIN env.out = DOMAIN env.envVars \cup DOMAIN env.secrets
        /\ \A v \in DOMAIN env.out :
              env.out[v] = IF v \in DOMAIN env.secrets
                           THEN NamedValue(env.secrets[v])
                           ELSE env.envVars[v]
        /\ \A v \in DOMAIN env.secrets : Len(env.secrets[v]) \in {2, 3}

\* a variable given both ways, one reference with and one without a namespace
C22_Witness ==
    /\ env.result = "ok"
    /\ DOMAIN env.envVars = VarNames
    /\ DOMAIN env.secrets = VarNames
    /\ env.out["FOO"] = "own-value"
    /\ env.out["TEST_VAR"] = "other-value"

\* C23: a 400 answer given after the payload was validated is the error
\* message, followed by the captured output if and only if the capture buffer
\* is not empty when the answer is written; a request that fails before its
\* process was started is answered with the message alone.
C23_FailureBody ==
    [][\A r \in Reqs :
          (/\ h[r].resp.code = 0
           /\ h'[r].resp.code = 400
           /\ h'[r].resp.body # ErrValidation) =>
              /\ h'[r].resp.body = h[r].err
              /\ h'[r].resp.output = h[r].buf
              /\ cmd[r].state = "none" => ~h'[r].resp.output]_vars

\* one request answered with message and output, another with the message
\* alone
C23_Witness ==
    \E r, q \in Reqs :
        /\ h[r].pc = "done" /\ h[r].resp.code = 400
        /\ h[r].resp.body = ErrNoCloudURL /\ h[r].resp.output
        /\ h[q].pc = "done" /\ h[q].resp.code = 400
        /\ h[q].resp.body = ErrTooSoon /\ ~h[q].resp.output

\* a field is textually present in the request
TextPresent(text) == text # "absent"

\* a field is present and holds a string that is not empty
TextGiven(text) == text \notin {"absent", ""}

\* the checks of a request in the order in which they are said to run, with
\* the error of each; Given says when an optional field is looked at
ClaimedChecks(req, Given(_)) ==
    <<[fails |-> req.name \in {"absent", ""}, err |-> "missing name"],
      [fails |-> req.namespace \in {"absent", ""}, err |-> "missing namespace"],
      [fails |-> req.phase \in {"absent", ""}, err |-> "missing phase"],
      [fails |-> req.script \in {"absent", ""}, err |-> "missing script"],
      [fails |-> Given(req.upload_to_cloud)
                   /\ req.upload_to_cloud \notin {"true", "false"},
       err |-> "error parsing value for 'upload_to_cloud'"],
      [fails |-> Given(req.wait_for_results)
                   /\ req.wait_for_results \notin {"true", "false"},
       err |-> "error parsing value for 'wait_for_results'"],
      [fails |-> Given(req.min_failure_delay) /\ req.min_failure_delay # "3m",
       err |-> "error parsing value for 'min_failure_delay'"],
      [fails |-> Given(req.env_vars) /\ req.env_vars # "{}",
       err |-> "error parsing value for 'env_vars'"],
      [fails |-> Given(req.kubernetes_secrets) /\ req.kubernetes_secrets # "{}",
       err |-> "error parsing value for 'kubernetes_secrets'"]>>

\* the error of the first check that fails, "" when none does
ClaimedError(checks) ==
    LET failing == {i \in DOMAIN checks : checks[i].fails}
    IN IF failing = {} THEN ""
       ELSE checks[CHOOSE i \in failing : \A j \in failing : i <= j].err

\* what is said of a parsed request, for one reading of "present"
ClaimedPayload(Given(_)) ==
    (payload.state = "parsed" /\ payload.req.body = "json") =>
        LET req == payload.req
            p == payload.p
        IN /\ p.err = ClaimedError(ClaimedChecks(req, Given))
           /\ p.err = "" =>
                 /\ ~Given(req.upload_to_cloud) => p.UploadToCloud = FALSE
                 /\ ~Given(req.wait_for_results) => p.WaitForResults = TRUE
                 /\ ~Given(req.min_failure_delay) =>
                        p.MinFailureDelay = DefaultMinFailureDelay
           /\ p.err # "" =>
                 /\ h[PollReq].pc \in {"idle", "release_invalid", "done"}
                 /\ cmd[PollReq] = NoTestRun
                 /\ h[PollReq].slack = <<>>
                 /\ \A k \in Keys : lastFailureTime[k] = NoTime

\* C24, as stated: newLaunchPayload rejects a request whose name, namespace,
\* phase or script is empty or whose upload_to_cloud, wait_for_results,
\* min_failure_delay, env_vars or kubernetes_secrets is present and does not
\* parse; the first failing check in that order gives the error; absent
\* optional fields get their defaults; a rejected payload has no effect on
\* processes, notifications or the failure memo.
C24_PresentMustParse == ClaimedPayload(TextPresent)

\* C24, amended: the same, an optional field being checked when it is present
\* and not the empty string; an optional field that is present and empty is
\* treated as an absent one and gets its default.
C24_NonEmptyMustParse == ClaimedPayload(TextGiven)

\* a request with an empty upload_to_cloud and two fields that do not parse
\* was rejected with the error of the first of the two
C24_Witness ==
    /\ payload.state = "parsed"
    /\ payload.req.upload_to_cloud = ""
    /\ payload.req.min_failure_delay = "bad"
    /\ payload.req.env_vars = "[]"
    /\ payload.p.err = "error parsing value for 'min_failure_delay'"
    /\ h[PollReq].pc = "done"
    /\ h[PollReq].resp.code = 400

\* a line in which k6 announces a result URL of one of the two known forms:
\* https://app.k6.io/runs/<n> or https://<host>.grafana.net/a/k6-app/runs/<n>
KnownResultURL(line) ==
    /\ line.frame
    /\ line.run
    /\ \/ line.host = "app.k6.io" /\ line.path = "/runs/"
       \/ line.host = "somewhere.grafana.net" /\ line.path = "/a/k6-app/runs/"

\* C25: with upload_to_cloud=true the notification context is extended by the
\* first result URL of the output that has one of the two known forms, and
\* the start notification and the final update carry the extended context;
\* with upload_to_cloud=false the context is passed unchanged.
C25_CloudURLInContext ==
    cloud.state \in {"attached", "started", "done"} =>
        /\ IF cloud.UploadToCloud
           THEN \E i \in DOMAIN cloud.output :
                  /\ KnownResultURL(cloud.output[i])
                  /\ \A j \in 1..(i - 1) : ~KnownResultURL(cloud.output[j])
                  /\ cloud.slackContext =
                        Append(NotificationContext,
                               [cloudURL |-> [host |-> cloud.output[i].host,
                                              path |-> cloud.output[i].path]])
           ELSE cloud.slackContext = NotificationContext
        /\ \A n \in DOMAIN cloud.sent :
              cloud.sent[n].context = cloud.slackContext

\* a call of buildEnvVars has returned
EnvReturned == env.result \notin {"unused", "none", "loop"}

\* C26: a request with neither env_vars nor kubernetes_secrets gets an empty
\* environment override, and a request that repeats the first one gets what
\* the first one got: the resolution keeps no state from request to request.
C26_NoStateAcrossRequests ==
    EnvReturned =>
        /\ (DOMAIN env.envVars = {} /\ DOMAIN env.secrets = {}) =>
              (env.result = "ok" /\ DOMAIN env.out = {})
        /\ (/\ env.calls > 1
            /\ env.envVars = env.first.envVars
            /\ env.secrets = env.first.secrets) =>
              /\ (env.result = "ok") <=> (env.first.result = "ok")
              /\ env.result = "ok" => env.out = env.first.out

\* a request without variables answered after one with variables and secrets
C26_Witness ==
    /\ EnvReturned
    /\ env.calls = MaxCalls
    /\ DOMAIN env.first.envVars # {}
    /\ DOMAIN env.first.secrets # {}
    /\ env.first.result = "ok"
    /\ DOMAIN env.envVars = {}
    /\ DOMAIN env.secrets = {}
    /\ env.out = <<>>

\* the components that called Wait on the handle of r
Waiters(r) == {cmd[r].waits[i] : i \in 1..Len(cmd[r].waits)}

\* C27: the handle of a started process is waited on by one component at
\* most: the handler calls Wait only on the path of wait_for_results=true and
\* never registers that handle with the reaper; a handler that hands the
\* handle off (fire-and-forget, readiness timeout, missing cloud URL) never
\* calls Wait on it.
C27_OneWaiterPerHandle ==
    \A r \in Reqs :
        /\ Cardinality(Waiters(r)) <= 1
        /\ "handler" \in Waiters(r) =>
              /\ h[r].wfr
              /\ ~h[r].asyncCleanup
              /\ Registrations(r) = 0
        /\ (h[r].asyncCleanup \/ Registrations(r) > 0) =>
              "handler" \notin Waiters(r)
        /\ h[r].pc \in {"wait", "release_sync"} => Registrations(r) = 0

\* one handle waited on by its handler, another by the reaper
C27_Witness ==
    \E r, q \in Reqs :
        /\ cmd[r].waits = <<"handler">> /\ Registrations(r) = 0
        /\ cmd[q].waits = <<"reaper">> /\ Registrations(q) = 1
        /\ h[q].pc = "done"

\* the handler of r is in registerProcessCleanup, at the send into the queue
Registering(r) ==
    h[r].pc \in {"register_timeout", "register_url", "register_async"}

\* C28: the intake queue never holds more handles than the configured
\* maximum, and a handler in registerProcessCleanup is never blocked for good,
\* before or after the shutdown signal: its send finds room in the queue, or
\* the dispatcher is still there to make room.
C28_RegisterNeverBlocksForGood ==
    /\ Len(processToWaitFor) <= MaxConcurrentTests
    /\ \A r \in Reqs : Registering(r) => (CanRegister \/ dispatcher = "loop")

\* C29: the check against the failure memo and the write of the memo are
\* separate steps and the memo is no lock: whether a request passes the check
\* depends on the recorded failure time alone, not on the runs of its key
\* that are under way, so that two requests of one key can both pass the
\* check and both start a process, also when one of them fails afterwards.
C29_MemoIsNoLock ==
    [][\A r \in Reqs :
          (memo.req[r].pc = "memo" /\ memo'.req[r].pc # "memo") =>
              (memo'.req[r].pc = "checked" <=>
                  ~(/\ lastFailureTime[memo.req[r].key] # NoTime
                    /\ now - lastFailureTime[memo.req[r].key]
                          < memo.req[r].delay))]_vars

\* two requests of one key passed the check and started; one has failed since
\* and its failure is young enough to refuse the other, which is running
C29_Witness ==
    \E r, q \in Reqs :
        /\ r # q
        /\ memo.req[r].key = memo.req[q].key
        /\ memo.req[r].pc = "failed"
        /\ memo.req[q].pc = "running"
        /\ TooSoon(memo.req[q].key, memo.req[q].delay)

\* the run of r is over and its process has been waited on
WaitedAndOver(r) == RunOver(r) /\ cmd[r].waits # <<>>

\* C30: once a run is over and its process has been waited on, the watcher
\* started for the run does not stay blocked: it has ended, or one of the
\* signals it waits for has come, with wait_for_results true and false and
\* without the global shutdown.
C30_WatcherEndsWithTheRun ==
    \A r \in Reqs :
        (WaitedAndOver(r) /\ h[r].watcher = "watching") => WatcherWoken(h[r])

\* the lock is held by a request that is inside getLastFailureTime or
\* setLastFailureTime, whose next step needs nothing but the lock it holds
LockDiscipline ==
    /\ table.lock # 0 =>
         /\ table.req[table.lock].pc \in {"get_locked", "set_locked"}
         /\ ENABLED (\/ getLastFailureTime_Read(table.lock)
                     \/ setLastFailureTime_Write(table.lock))
    /\ \A r \in Reqs :
         table.req[r].pc \in {"get_locked", "set_locked"} => table.lock = r

\* what a step does to the table and to what the requests have read from it
TableStep ==
    /\ \A k \in DOMAIN table.entries :
         /\ k \in DOMAIN table'.entries
         /\ table'.entries[k] >= table.entries[k]
    /\ table'.entries # table.entries =>
         /\ table.lock # 0
         /\ table.req[table.lock].pc = "set_locked"
         /\ \A k \in DOMAIN table'.entries :
              k # key(table.req[table.lock].target) =>
                  /\ k \in DOMAIN table.entries
                  /\ table'.entries[k] = table.entries[k]
    /\ \A r \in Reqs :
         <<table'.req[r].v, table'.req[r].ok>> # <<table.req[r].v, table.req[r].ok>>
             /\ table'.req[r].pc # "idle"
             => table.lock = r

\* C31: an entry of the last-failure table is never removed, a write replaces
\* it with a time not earlier than the one before and leaves the entries of
\* the other keys alone; the table is read and written under its lock only,
\* and the lock is not held across a call that can block.
C31_TableUnderItsLock == []LockDiscipline /\ [][TableStep]_vars

C31_Witness ==
    /\ table.lock # 0
    /\ table.req[table.lock].pc = "set_locked"
    /\ Cardinality(DOMAIN table.entries) >= 2
    /\ \E k \in DOMAIN table.entries :
         /\ k = key(table.req[table.lock].target)
         /\ table.entries[k] < now

\* the request has looked its key up in the table
LookedUp(r) == table.req[r].pc \in {"compare", "run", "set", "set_locked", "done"}

\* C34: requests for different targets (namespace, name, phase) use different
\* run keys.
C34_DistinctTargetsDistinctKeys ==
    \A r, q \in Reqs :
        (LookedUp(r) /\ LookedUp(q) /\ table.req[r].target # table.req[q].target)
            => table.req[r].key # table.req[q].key

\* the messages of a request so far that open a thread, and those that update it
InitialMessages(sl) ==
    {i \in DOMAIN sl : sl[i] \in {"has started", "didn't start successfully"}}
MessageUpdates(sl) ==
    {i \in DOMAIN sl : sl[i] \in {"has succeeded", "has failed"}}

\* the request has announced the start of its run
Announced(r) == \E i \in DOMAIN h[r].slack : h[r].slack[i] = "has started"

\* the start is announced with the marker seen and, when the results are
\* uploaded, with the cloud URL of the output in the notification context
AnnouncedInOrder ==
    Announced(PollReq) =>
        /\ poll.result = "ok"
        /\ MarkerPresent
        /\ cloud.state = "attached"
        /\ cloud.UploadToCloud =>
             /\ getCloudURL(cloud.output).err = ""
             /\ cloud.slackContext =
                  Append(NotificationContext,
                         [cloudURL |-> getCloudURL(cloud.output).url])

\* a step that sends a first message sends the only one; a step that updates
\* the message belongs to a request that waits for the results, and the
\* handler's Wait on the process has returned
MessageStep ==
    \A r \in Reqs :
        /\ InitialMessages(h'[r].slack) # InitialMessages(h[r].slack) =>
             \/ h'[r].slack = <<>>
             \/ /\ InitialMessages(h[r].slack) = {}
                /\ Cardinality(InitialMessages(h'[r].slack)) = 1
        /\ MessageUpdates(h'[r].slack) # {} =>
             /\ h[r].wfr
             /\ \E i \in DOMAIN cmd'[r].waits : cmd'[r].waits[i] = "handler"

\* C32: "has started" is sent only after the readiness marker was seen and,
\* with upload_to_cloud, after the cloud URL was extracted; a request sends
\* at most one first message, "has started" or "didn't start successfully";
\* the message is updated only when the request waits for the results, after
\* Wait on the process has returned.
C32_OrderOfNotifications == []AnnouncedInOrder /\ [][MessageStep]_vars

C32_Witness ==
    /\ Announced(PollReq)
    /\ cloud.UploadToCloud
    /\ poll.sleeps > 0
    /\ MessageUpdates(h[PollReq].slack) # {}

\* the step writes a 400 for r that is not the answer to an invalid payload
Answers400(r) ==
    /\ h[r].resp.code # 400
    /\ h'[r].resp.code = 400
    /\ h'[r].resp.body # "error while validating request"

\* C33: every 400 answered after the validation of the payload records the
\* current time as the last failure of the run key, the rejection of a
\* suppressed retry included; nothing else writes the memo on the way to an
\* answer that is a 429 or a validation error.
C33_Every400WritesTheMemo ==
    [][/\ \A r \in Reqs :
            Answers400(r) => lastFailureTime'[h[r].key] = now
       /\ \A r \in Reqs :
            (h[r].resp.code = 0 /\ h'[r].resp.code # 0 /\ ~Answers400(r))
                => lastFailureTime' = lastFailureTime
       /\ lastFailureTime' # lastFailureTime => \E r \in Reqs : Answers400(r)
      ]_vars

C33_Witness ==
    \E r \in Reqs :
        /\ h[r].resp.code = 400
        /\ h[r].resp.body = "not enough time since last failure"
        /\ now > 0
        /\ lastFailureTime[h[r].key] = now

\* the errors that buildEnvVars returns, which failRequest answers with a 400
ResolutionErrors ==
    {"kubernetes client is not configured", "error fetching secret",
     "secret does not have key"}

\* C35: for a payload that passed validation the resolution of its variables
\* ends with the variables or with a resolution error that is answered; a
\* secret reference without a key is such an error, it never aborts the
\* handler.
C35_ResolutionReturns ==
    env.result \notin {"unused", "none", "loop"}
        => env.result \in {"ok"} \cup ResolutionErrors

\* the failures of a request whose run has its scope already
FailuresWithScope ==
    {"resolution error", "error while launching test",
     "error while waiting for test to start: timeout",
     "couldn't find the cloud URL in the output", "failed to run"}

\* failRequest has answered r for a failure that came with the scope created
FailedWithScope(r) ==
    /\ h[r].pc \in {"register_url", "done"}
    /\ h[r].resp.code = 400
    /\ h[r].resp.body \in FailuresWithScope

\* C36: a request that fails after the scope of its run was created has the
\* scope cancelled by failRequest before Handle returns, whether it waits for
\* the results or not; after a readiness timeout or a missing cloud URL the
\* reaper is handed the process without a cancel function: it only waits.
C36_FailRequestCancelsTheScope ==
    \A r \in Reqs :
        FailedWithScope(r) =>
            /\ h[r].processCtx = "cancelled"
            /\ h[r].resp.body \in {"error while waiting for test to start: timeout",
                                   "couldn't find the cloud URL in the output"}
                  => ~cmd[r].cancelFunc

C36_Witness ==
    \E r \in Reqs :
        /\ FailedWithScope(r)
        /\ ~h[r].wfr
        /\ h[r].pc = "done"
        /\ h[r].resp.body = "error while waiting for test to start: timeout"
        /\ reaper[r] # "none"
        /\ cmd[r].waitErr

\* Handle is over for the request, by a return or otherwise
HandleOver(r) == h[r].pc \in {"done", "panicked"}

\* C37: a handled request ends with exactly one outcome among 200, 400 and
\* 429; failRequest is called with nothing written yet (no success body, no
\* 429, no validation error, no earlier failRequest), and what it has written
\* stays.
C37_ExactlyOneOutcome ==
    \A r \in Reqs :
        /\ HandleOver(r) => h[r].resp.code \in {200, 400, 429}
        /\ h[r].pc = "fail" => h[r].resp = NoResp
        /\ h[r].pc \in {"fail_release", "register_url"} =>
             /\ h[r].resp.code = 400
             /\ h[r].resp.body # "error while validating request"

\* C38: when the construction of the launch handler fails, Listen returns
\* that error: its deferred shutdown step neither aborts on the absent
\* handler nor blocks.
C38_ListenReturnsTheError ==
    (listen.launchHandler = "nil" /\ listen.pc \notin {"Wait"})
        => /\ listen.pc = "returned"
           /\ listen.returned = "unexpected state. Slack client is nil"

====
